---------------------------- MODULE Spec2Model ----------------------------
(***************************************************************************)
(* Ennoblement monitor: the poll cycle of the two change detectors          *)
(* (timestamp cursor, content-hash cursor), the triggers that start cycles  *)
(* and the collaborators they talk to (scraper, notifier, state store).     *)
(*                                                                          *)
(* JavaScript strings that the code takes apart (timestamps, tribe tags,    *)
(* signature lines) are sequences of one-character strings, so that split,  *)
(* trim, toLowerCase, parseInt and the string order are computed and not    *)
(* assumed.  Strings the code only passes along or tests for emptiness      *)
(* (village and player names) are TLA+ strings.                             *)
(***************************************************************************)
EXTENDS Integers, Sequences, FiniteSets, TLC

(***************************************************************************)
(* Bounds of the model.                                                     *)
(***************************************************************************)
\* Longest page (number of table rows that parse to a record).
MaxPage == 2
\* Cycles followed in one behaviour, over all restarts of the process.
MaxCycles == 2

(***************************************************************************)
(* Program constants.                                                       *)
(***************************************************************************)
\* _notifyWithRetry of the timestamp strategy: const maxRetries = 3.
NotifyMaxRetries == 3
\* _retryWithBackoff of the hash strategy: maxRetries = 3 (attempts 0..3).
BackoffMaxRetries == 3
\* executePollingWithRetry: const maxRetries = 2 (attempts 1..3).
PollingMaxRetries == 2
\* initializeWhatsAppGracefully: const maxRetries = 3 (attempts 1..3).
InitMaxRetries == 3
\* The filter App wires: { clan: 'SiSu', xMax: 452, yMin: 462 }.
XMax == 452
YMin == 462

(***************************************************************************)
(* JavaScript values.                                                       *)
(***************************************************************************)
\* null and undefined; no character sequence equals either (characters are
\* one-character strings).
Null == <<"null-value">>
Undefined == <<"undefined-value">>

IsString(v) == v # Null /\ v # Undefined
\* JavaScript truthiness of a string-or-null value: null, undefined and ""
\* are falsy.
Truthy(v) == IsString(v) /\ v # <<>>

Digits == <<"0", "1", "2", "3", "4", "5", "6", "7", "8", "9">>
UpperCase ==
  <<"A", "B", "C", "D", "E", "F", "G", "H", "I", "J", "K", "L", "M",
    "N", "O", "P", "Q", "R", "S", "T", "U", "V", "W", "X", "Y", "Z">>
LowerCase ==
  <<"a", "b", "c", "d", "e", "f", "g", "h", "i", "j", "k", "l", "m",
    "n", "o", "p", "q", "r", "s", "t", "u", "v", "w", "x", "y", "z">>
WhiteSpace == {" ", "\t", "\n"}

IsDigit(c) == \E i \in 1..10 : Digits[i] = c
DigitVal(c) == (CHOOSE i \in 1..10 : Digits[i] = c) - 1

\* UTF-16 code unit of the characters the model uses.
CharCode(c) ==
  IF IsDigit(c) THEN 48 + DigitVal(c)
  ELSE IF \E i \in 1..26 : UpperCase[i] = c
    THEN 64 + (CHOOSE i \in 1..26 : UpperCase[i] = c)
  ELSE IF \E i \in 1..26 : LowerCase[i] = c
    THEN 96 + (CHOOSE i \in 1..26 : LowerCase[i] = c)
  ELSE CASE c = "\n" -> 10
         [] c = "\t" -> 9
         [] c = " " -> 32
         [] c = "-" -> 45
         [] c = "." -> 46
         [] c = ":" -> 58
         [] c = "|" -> 124
         [] OTHER -> 63

\* The relational comparison of two strings: code unit by code unit, a
\* proper prefix first.
RECURSIVE StrLess(_, _)
StrLess(a, b) ==
  IF b = <<>> THEN FALSE
  ELSE IF a = <<>> THEN TRUE
  ELSE IF CharCode(Head(a)) # CharCode(Head(b))
    THEN CharCode(Head(a)) < CharCode(Head(b))
  ELSE StrLess(Tail(a), Tail(b))

\* String.prototype.trim
RECURSIVE TrimStart(_)
TrimStart(s) ==
  IF s # <<>> /\ Head(s) \in WhiteSpace THEN TrimStart(Tail(s)) ELSE s
RECURSIVE TrimEnd(_)
TrimEnd(s) ==
  IF s # <<>> /\ s[Len(s)] \in WhiteSpace
    THEN TrimEnd(SubSeq(s, 1, Len(s) - 1))
    ELSE s
Trim(s) == TrimEnd(TrimStart(s))

\* String.prototype.toLowerCase
ToLowerChar(c) ==
  IF \E i \in 1..26 : UpperCase[i] = c
    THEN LowerCase[CHOOSE i \in 1..26 : UpperCase[i] = c]
    ELSE c
ToLowerCase(s) == [i \in 1..Len(s) |-> ToLowerChar(s[i])]

\* String.prototype.indexOf, 1-based; 0 when sep does not occur.
IndexOf(s, sep) ==
  LET hits == {i \in 1..(Len(s) - Len(sep) + 1) :
                 SubSeq(s, i, i + Len(sep) - 1) = sep}
  IN IF hits = {} THEN 0 ELSE CHOOSE i \in hits : \A j \in hits : i <= j

\* String.prototype.split with a non-empty separator.
RECURSIVE Split(_, _)
Split(s, sep) ==
  LET i == IndexOf(s, sep)
  IN IF i = 0 THEN <<s>>
     ELSE <<SubSeq(s, 1, i - 1)>> \o Split(SubSeq(s, i + Len(sep), Len(s)), sep)

\* Array destructuring: the i-th element, undefined past the end.
Part(parts, i) == IF i <= Len(parts) THEN parts[i] ELSE Undefined

\* The decimal rendering of a non-negative integer (template literal).
RECURSIVE NumToStr(_)
NumToStr(n) ==
  IF n < 10 THEN <<Digits[n + 1]>>
  ELSE NumToStr(n \div 10) \o <<Digits[(n % 10) + 1]>>

\* A number or NaN.
NaN == [nan |-> TRUE, v |-> 0]
Num(n) == [nan |-> FALSE, v |-> n]

\* parseInt(string): leading white space skipped, an optional sign, then the
\* longest run of decimal digits; NaN when there is none.  parseInt(undefined)
\* parses the text "undefined": NaN.
RECURSIVE DigitsValue(_, _)
DigitsValue(s, acc) ==
  IF s = <<>> \/ ~IsDigit(Head(s)) THEN acc
  ELSE DigitsValue(Tail(s), acc * 10 + DigitVal(Head(s)))
parseInt(str) ==
  IF ~IsString(str) THEN NaN
  ELSE LET s == TrimStart(str)
           neg == s # <<>> /\ Head(s) = "-"
           body == IF neg THEN Tail(s) ELSE s
       IN IF body = <<>> \/ ~IsDigit(Head(body)) THEN NaN
          ELSE Num((IF neg THEN -1 ELSE 1) * DigitsValue(body, 0))

(***************************************************************************)
(* Date: new Date(year, monthIndex, day, hours, minutes, seconds), local    *)
(* time.  The time value is kept in seconds and the local zone is taken to  *)
(* have a fixed offset, so it is the day number times 86400 plus the time   *)
(* in the day (ECMAScript MakeDay / MakeTime); fields out of range carry.   *)
(***************************************************************************)
IsLeap(y) == (y % 4 = 0 /\ y % 100 # 0) \/ y % 400 = 0
DayFromYear(y) ==
  365 * (y - 1970) + ((y - 1969) \div 4) - ((y - 1901) \div 100)
    + ((y - 1601) \div 400)
MonthStart(y, m) ==
  LET cum == <<0, 31, 59, 90, 120, 151, 181, 212, 243, 273, 304, 334>>
  IN cum[m + 1] + (IF m >= 2 /\ IsLeap(y) THEN 1 ELSE 0)
MakeDay(year, month, date) ==
  LET ym == year + (month \div 12)
      mn == month % 12
  IN DayFromYear(ym) + MonthStart(ym, mn) + date - 1
InvalidDate == [valid |-> FALSE, t |-> 0]
NewDate(year, month, day, hour, minute, second) ==
  IF year.nan \/ month.nan \/ day.nan \/ hour.nan \/ minute.nan \/ second.nan
    THEN InvalidDate
    ELSE LET yr == IF 0 <= year.v /\ year.v <= 99 THEN 1900 + year.v ELSE year.v
         IN [valid |-> TRUE,
             t |-> MakeDay(yr, month.v, day.v) * 86400
                     + hour.v * 3600 + minute.v * 60 + second.v]
\* a > b on two Dates: the time values compared, false when either is NaN.
DateGreater_orEqual(a, b) == a.valid /\ b.valid /\ a.t >= b.t
DateGreater(a, b) == a.valid /\ b.valid /\ a.t > b.t
\* NaN - 1 is NaN.
Minus1(n) == IF n.nan THEN NaN ELSE Num(n.v - 1)


(***************************************************************************)
(* Timestamp strategy (core/use-cases/poll-and-notify.js): pure parts.      *)
(***************************************************************************)
\* parseTimestamp: "YYYY-MM-DD - HH:MM:SS" to a Date.  A text without the
\* " - " separator leaves timePart undefined and timePart.split throws.
parseTimestamp(timestamp) ==
  LET parts == Split(timestamp, <<" ", "-", " ">>)
      datePart == Part(parts, 1)
      timePart == Part(parts, 2)
      ymd == Split(datePart, <<"-">>)
  IN IF timePart = Undefined
       THEN [threw |-> TRUE, date |-> InvalidDate]
       ELSE LET hms == Split(timePart, <<":">>)
            IN [threw |-> FALSE,
                date |-> NewDate(parseInt(Part(ymd, 1)),
                                 Minus1(parseInt(Part(ymd, 2))),
                                 parseInt(Part(ymd, 3)),
                                 parseInt(Part(hms, 1)),
                                 parseInt(Part(hms, 2)),
                                 parseInt(Part(hms, 3)))]

\* findNewEvents with >= in place of > (an event at the cursor is new again).
findNewEvents_orEqual(events, lastProcessedTimestamp) ==
  IF ~Truthy(lastProcessedTimestamp) THEN [threw |-> FALSE, events |-> <<>>]
  ELSE LET last == parseTimestamp(lastProcessedTimestamp)
       IN IF last.threw
             \/ \E i \in 1..Len(events) : parseTimestamp(events[i].timestamp).threw
            THEN [threw |-> TRUE, events |-> <<>>]
            ELSE [threw |-> FALSE,
                  events |-> SelectSeq(events,
                    LAMBDA e : ~DateGreater(last.date,
                                            parseTimestamp(e.timestamp).date))]

\* findNewEvents comparing the timestamp texts instead of the parsed Dates.
findNewEvents_asStrings(events, lastProcessedTimestamp) ==
  IF ~Truthy(lastProcessedTimestamp) THEN [threw |-> FALSE, events |-> <<>>]
  ELSE LET last == parseTimestamp(lastProcessedTimestamp)
       IN IF last.threw
             \/ \E i \in 1..Len(events) : parseTimestamp(events[i].timestamp).threw
            THEN [threw |-> TRUE, events |-> <<>>]
            ELSE [threw |-> FALSE,
                  events |-> SelectSeq(events,
                    LAMBDA e : StrLess(lastProcessedTimestamp, e.timestamp))]

\* findNewEvents: the events whose Date is greater than the cursor's, in page
\* order; throws when the cursor or an event does not parse.
findNewEvents(events, lastProcessedTimestamp) ==
  IF ~Truthy(lastProcessedTimestamp) THEN [threw |-> FALSE, events |-> <<>>]
  ELSE LET last == parseTimestamp(lastProcessedTimestamp)
       IN IF last.threw
             \/ \E i \in 1..Len(events) : parseTimestamp(events[i].timestamp).threw
            THEN [threw |-> TRUE, events |-> <<>>]
            ELSE [threw |-> FALSE,
                  events |-> SelectSeq(events,
                    LAMBDA e : DateGreater(parseTimestamp(e.timestamp).date,
                                           last.date))]

\* The tribe name the timestamp strategy compares with.
SiSu == <<"S", "i", "S", "u">>

\* this.filters of the timestamp strategy is only tested for truthiness.
NoFilters == [kind |-> "null"]
FiltersActive(filters) == filters.kind # "null"

\* The filter callback of runOnce: with filters active, newTribe or oldTribe
\* is exactly 'SiSu' (the coordinate test is commented out); otherwise true.
passesFilter(event, filters) ==
  IF FiltersActive(filters)
    THEN event.newTribe = SiSu \/ event.oldTribe = SiSu
    ELSE TRUE

filterNewEvents(newEvents, filters) ==
  SelectSeq(newEvents, LAMBDA e : passesFilter(e, filters))

\* The first element of the scraped page: "First event is the latest".
latestEvent_last(allEvents) == allEvents[Len(allEvents)]
latestEvent(allEvents) == allEvents[1]

\* The event whose timestamp becomes the cursor after a cycle with new
\* events: newEvents[0], whether or not it passed the filter.
latestProcessedEvent_filtered(newEvents, filteredEvents) ==
  IF filteredEvents # <<>> THEN filteredEvents[1] ELSE newEvents[Len(newEvents)]
latestProcessedEvent(newEvents, filteredEvents) == newEvents[1]

\* if (newEvents.length > 0): whether the cursor is written at the end.
cursorAdvances_onMatch(newEvents, filteredEvents) == Len(filteredEvents) > 0
cursorAdvances(newEvents, filteredEvents) == Len(newEvents) > 0

\* A || default for a TLA+ string.
OrElse(s, dflt) == IF s = "" THEN dflt ELSE s
\* A || default for a character sequence or null.
OrElseSeq_blank(v, dflt) == IF Truthy(v) THEN v ELSE <<>>
OrElseSeq(v, dflt) == IF Truthy(v) THEN v ELSE dflt

\* formatSingleEvent: the pieces of the rendered block, in order.
formatSingleEvent(event) ==
  [villageName |-> OrElse(event.villageName, "Bilinmeyen Koy"),
   coordinates |-> NumToStr(event.x) \o <<"|">> \o NumToStr(event.y),
   oldPlayer |-> OrElse(event.oldPlayer, "Bilinmeyen"),
   oldTribe |-> OrElseSeq(event.oldTribe, <<"n", "u", "l", "l">>),
   newPlayer |-> OrElse(event.newPlayer, "Bilinmeyen"),
   newTribe |-> OrElseSeq(event.newTribe, <<"n", "u", "l", "l">>),
   timestamp |-> OrElseSeq(event.timestamp, <<"?">>)]

\* renderMessage: one block alone, or a header with the count followed by the
\* numbered blocks (header 0: no header).
renderMessage(events) ==
  IF Len(events) = 1
    THEN [header |-> 0, blocks |-> <<formatSingleEvent(events[1])>>]
    ELSE [header |-> Len(events),
          blocks |-> [i \in 1..Len(events) |-> formatSingleEvent(events[i])]]

(***************************************************************************)
(* Hash strategy (core/use-cases/poll-and-notify-backup.js): pure parts.    *)
(***************************************************************************)
\* The tribe test without trim().
tribeMatch_noTrim(tribe, clan) ==
  Truthy(tribe) /\ ToLowerCase(tribe) = ToLowerCase(clan)
\* event.tribe && event.tribe.trim().toLowerCase() === clan.toLowerCase()
tribeMatch(tribe, clan) ==
  Truthy(tribe) /\ ToLowerCase(Trim(tribe)) = ToLowerCase(clan)

\* The filter callback of filterEvents.
eventMatches(event, filters) ==
  LET clanMatches == tribeMatch(event.oldTribe, filters.clan)
                       \/ tribeMatch(event.newTribe, filters.clan)
      coordMatches == event.x < filters.xMax /\ event.y > filters.yMin
  IN clanMatches /\ coordMatches

\* filterEvents: reading this.filters.clan of a null filters throws, in the
\* callback, so only when there is an event to test.
filterEvents(events, filters) ==
  IF ~FiltersActive(filters)
    THEN [threw |-> events # <<>>, events |-> <<>>]
    ELSE [threw |-> FALSE,
          events |-> SelectSeq(events, LAMBDA e : eventMatches(e, filters))]

\* One line of the signature.
signatureLine_withVillage(event) ==
  LET oldTribe == IF Truthy(event.oldTribe) THEN Trim(event.oldTribe) ELSE <<>>
      newTribe == IF Truthy(event.newTribe) THEN Trim(event.newTribe) ELSE <<>>
  IN event.timestamp \o <<"|">> \o NumToStr(event.x) \o <<"|">>
       \o NumToStr(event.y) \o <<"|">> \o oldTribe \o <<"|">> \o newTribe
       \o <<"|", event.villageName>>
signatureLine(event) ==
  LET oldTribe == IF Truthy(event.oldTribe) THEN Trim(event.oldTribe) ELSE <<>>
      newTribe == IF Truthy(event.newTribe) THEN Trim(event.newTribe) ELSE <<>>
  IN event.timestamp \o <<"|">> \o NumToStr(event.x) \o <<"|">>
       \o NumToStr(event.y) \o <<"|">> \o oldTribe \o <<"|">> \o newTribe

\* Array.prototype.sort() without a comparator: ascending string order.
RECURSIVE InsertSorted(_, _)
InsertSorted(line, sorted) ==
  IF sorted = <<>> THEN <<line>>
  ELSE IF StrLess(line, Head(sorted)) THEN <<line>> \o sorted
  ELSE <<Head(sorted)>> \o InsertSorted(line, Tail(sorted))
SortLines_asListed(lines) == lines
RECURSIVE SortLines(_)
SortLines(lines) ==
  IF lines = <<>> THEN <<>>
  ELSE InsertSorted(lines[Len(lines)], SortLines(SubSeq(lines, 1, Len(lines) - 1)))

\* Array.prototype.join('\n')
RECURSIVE JoinLines(_)
JoinLines(lines) ==
  IF lines = <<>> THEN <<>>
  ELSE IF Len(lines) = 1 THEN lines[1]
  ELSE lines[1] \o <<"\n">> \o JoinLines(Tail(lines))

\* buildSignature: map, sort, join.
buildSignature(events) ==
  JoinLines(SortLines([i \in 1..Len(events) |-> signatureLine(events[i])]))

\* hashSignature: the SHA-256 digest of the signature, taken as free of
\* collisions: equal digests exactly for equal signatures.
hashSignature(signature) == [sha256 |-> signature]
NoHash == [sha256 |-> Null]

\* lastHash === newHash
hashUnchanged_never(lastHash, newHash) == FALSE
hashUnchanged(lastHash, newHash) == lastHash = newHash

\* formatSingleEvent of the hash strategy: the pieces of the block.
formatSingleEventB(event) ==
  LET isSiSuGain == Truthy(event.newTribe)
                      /\ ToLowerCase(Trim(event.newTribe)) = <<"s", "i", "s", "u">>
      isSiSuLoss == Truthy(event.oldTribe)
                      /\ ToLowerCase(Trim(event.oldTribe)) = <<"s", "i", "s", "u">>
      noTribe == <<"N", "o", " ", "T", "r", "i", "b", "e">>
  IN [status |-> IF isSiSuGain THEN "KOY KAZANILDI"
                 ELSE IF isSiSuLoss THEN "KOY KAYBEDILDI" ELSE "KOY DEGISTI",
      villageName |-> event.villageName,
      coordinates |-> NumToStr(event.x) \o <<"|">> \o NumToStr(event.y),
      points |-> event.points,
      oldPlayer |-> event.oldPlayer,
      oldTribe |-> IF Truthy(event.oldTribe) THEN event.oldTribe ELSE noTribe,
      newPlayer |-> event.newPlayer,
      newTribe |-> IF Truthy(event.newTribe) THEN event.newTribe ELSE noTribe,
      timestamp |-> event.timestamp]

\* renderMessage of the hash strategy: the template with {{items}} replaced
\* by the blocks, or (no template) a header with the count and the blocks.
renderMessageB_first(events, template) ==
  [template |-> template,
   header |-> IF template # "" THEN 0 ELSE Len(events),
   blocks |-> <<formatSingleEventB(events[1])>>]
renderMessageB(events, template) ==
  [template |-> template,
   header |-> IF template # "" THEN 0 ELSE Len(events),
   blocks |-> [i \in 1..Len(events) |-> formatSingleEventB(events[i])]]

(***************************************************************************)
(* Inputs: the records a scrape can return.                                 *)
(***************************************************************************)
\* Timestamp texts as the scraper emits them: the site's own format (passed
\* through untouched), with and without zero padding, one without seconds,
\* and one the scraper normalised to ISO 8601.
tsDawn ==
  <<"2", "0", "2", "5", "-", "0", "8", "-", "0", "1", " ", "-", " ", "2", "3", ":", "5", "9", ":", "0", "0">>
tsMorning ==
  <<"2", "0", "2", "5", "-", "0", "8", "-", "0", "2", " ", "-", " ", "0", "9", ":", "0", "0", ":", "0", "0">>
tsTen ==
  <<"2", "0", "2", "5", "-", "0", "8", "-", "0", "2", " ", "-", " ", "1", "0", ":", "0", "0", ":", "0", "0">>
tsTenShort ==
  <<"2", "0", "2", "5", "-", "8", "-", "2", " ", "-", " ", "1", "0", ":", "0", "0", ":", "0", "0">>
tsNoSeconds ==
  <<"2", "0", "2", "5", "-", "0", "8", "-", "0", "2", " ", "-", " ", "1", "2", ":", "1", "5">>
tsIso ==
  <<"2", "0", "2", "5", "-", "0", "8", "-", "0", "3", "T", "0", "0", ":", "0", "0", ":", "0", "0", ".", "0", "0", "0", "Z">>

Enemy == <<"E", "n", "e", "m", "y">>

Event(village, x, y, oldTribe, newTribe, timestamp) ==
  [villageName |-> village, x |-> x, y |-> y, points |-> 100,
   oldPlayer |-> "OldPlayer", oldTribe |-> oldTribe,
   newPlayer |-> "NewPlayer", newTribe |-> newTribe,
   timestamp |-> timestamp]

\* The records of the catalogue, one per timestamp text.
evLoss == Event("Alpha", 450, 465, SiSu, Enemy, tsMorning)
evFar == Event("Beta", 453, 465, SiSu, Null, tsTen)
evLower == Event("", 450, 465, Enemy, <<" ", "s", "i", "s", "u", " ">>, tsTenShort)
evShort == Event("Delta", 450, 460, SiSu, Enemy, tsNoSeconds)
evIso == Event("Epsilon", 450, 465, Null, SiSu, tsIso)
Events == {evLoss, evFar, evLower, evShort, evIso}

\* What each timestamp text says, read by a person: the minute it names,
\* counted from 2025-08-02 00:00, and whether it spells date, hours, minutes
\* and seconds in the site's "date - time" form.  tsDawn is the time of a
\* conquest that has left the page (it can only be a cursor).
Clock ==
  {[text |-> tsDawn, minute |-> -1, form |-> "site"],
   [text |-> tsMorning, minute |-> 540, form |-> "site"],
   [text |-> tsTen, minute |-> 600, form |-> "site"],
   [text |-> tsTenShort, minute |-> 600, form |-> "site"],
   [text |-> tsNoSeconds, minute |-> 735, form |-> "short"],
   [text |-> tsIso, minute |-> 1440, form |-> "iso"]}
ClockOf(text) == CHOOSE c \in Clock : c.text = text
Timestamps == {c.text : c \in Clock}

\* The pages a scrape can return: up to MaxPage distinct records, the most
\* recent first, as the site lists them.
Pages ==
  {pg \in UNION {[1..n -> Events] : n \in 0..MaxPage} :
     /\ \A i, j \in DOMAIN pg : i # j => pg[i] # pg[j]
     /\ \A i, j \in DOMAIN pg :
          i < j => ClockOf(pg[i].timestamp).minute >= ClockOf(pg[j].timestamp).minute}

\* The filters object App hands to the use case.
WiredFilters == [kind |-> "object", clan |-> SiSu, xMax |-> XMax, yMin |-> YMin]
\* The message template of the configuration ("" when there is none).
Templates == {"Updates: {{items}}"}
\* The recipient lists of the configuration.
RecipientLists == {<<>>, <<"905550000000">>}

\* The hashes a state file left by an earlier run can hold.
KnownHashes ==
  {hashSignature(buildSignature(filterEvents(pg, WiredFilters).events)) :
     pg \in {q \in Pages : filterEvents(q, WiredFilters).events # <<>>}}

(***************************************************************************)
(* CheerioScraper (infrastructure/scraper/cheerio-scraper.js): pure parts.  *)
(* Regular expressions are matched as JavaScript matches them: the leftmost *)
(* start, each quantifier as long as the rest of the pattern allows.        *)
(***************************************************************************)
\* Pattern pieces: one literal character; a run of digits or of white space
\* of min..max characters (max 0: unbounded); ".*$", the rest of the text
\* when it has no line break.
Lit(c) == [k |-> "lit", c |-> c, min |-> 1, max |-> 1]
DigitRun(min, max) == [k |-> "digits", c |-> "", min |-> min, max |-> max]
SpaceRun(min) == [k |-> "space", c |-> "", min |-> min, max |-> 0]
RestOfLine == [k |-> "rest", c |-> "", min |-> 0, max |-> 0]

NoMatch == [ok |-> FALSE, start |-> 0, end |-> 0, caps |-> <<>>]

\* The length of the run of characters of the piece's class at position i.
InClass(c, k) == (k = "digits" /\ IsDigit(c)) \/ (k = "space" /\ c \in WhiteSpace)
RunLength(s, i, k) ==
  CHOOSE n \in 0..(Len(s) + 1 - i) :
    /\ \A j \in i..(i + n - 1) : InClass(s[j], k)
    /\ i + n <= Len(s) => ~InClass(s[i + n], k)

\* The lengths the piece can take at position i.
Capped(run, max) == IF max = 0 \/ run < max THEN run ELSE max
PieceLengths(s, i, p) ==
  IF p.k = "lit" THEN IF i <= Len(s) /\ s[i] = p.c THEN {1} ELSE {}
  ELSE IF p.k = "rest"
    THEN IF \A j \in i..Len(s) : s[j] # "\n" THEN {Len(s) + 1 - i} ELSE {}
  ELSE p.min..Capped(RunLength(s, i, p.k), p.max)

\* Of the ways to go on, one for each length of the first piece, the one
\* with the longest first piece that lets the rest match.
Longest(ways) ==
  LET good == {n \in DOMAIN ways : ways[n].ok}
  IN IF good = {} THEN NoMatch
     ELSE ways[CHOOSE m \in good : \A o \in good : o <= m]

\* The pieces matched from position i on; caps collects the digit runs (the
\* capture groups), end is the position after the match.
RECURSIVE MatchAt(_, _, _, _)
MatchAt(s, i, pieces, caps) ==
  IF pieces = <<>> THEN [ok |-> TRUE, start |-> 0, end |-> i, caps |-> caps]
  ELSE Longest([n \in PieceLengths(s, i, Head(pieces)) |->
                  MatchAt(s, i + n, Tail(pieces),
                          IF Head(pieces).k = "digits"
                            THEN Append(caps, SubSeq(s, i, i + n - 1))
                            ELSE caps)])

\* Of the matches tried at each start, the leftmost.
Leftmost(tries) ==
  LET starts == {i \in DOMAIN tries : tries[i].ok}
  IN IF starts = {} THEN NoMatch
     ELSE LET i == CHOOSE m \in starts : \A o \in starts : m <= o
          IN [tries[i] EXCEPT !.start = i]

\* String.prototype.match without the g flag: the leftmost match.
Match(s, pieces) ==
  Leftmost([i \in 1..(Len(s) + 1) |-> MatchAt(s, i, pieces, <<>>)])

\* String.prototype.replace(pattern, ''): the first match cut out.
Remove(s, m) ==
  IF m.ok THEN SubSeq(s, 1, m.start - 1) \o SubSeq(s, m.end, Len(s)) ELSE s

\* /\((\d+)\|(\d+)\)/
CoordsPattern == <<Lit("("), DigitRun(1, 0), Lit("|"), DigitRun(1, 0), Lit(")")>>
\* /K(\d+)/
ContinentPattern == <<Lit("K"), DigitRun(1, 0)>>
\* /\s*K\d+.*$/
ContinentTailPattern == <<SpaceRun(0), Lit("K"), DigitRun(1, 0), RestOfLine>>

\* _parseVillageAndCoords: the coordinates (0, 0 when the cell has none),
\* the continent, and the name with coordinates and continent cut off.
_parseVillageAndCoords(villageCell) ==
  LET coordMatch == Match(villageCell, CoordsPattern)
      continentMatch == Match(villageCell, ContinentPattern)
      noCoords == Remove(villageCell, coordMatch)
  IN [villageName |-> Trim(Remove(noCoords, Match(noCoords, ContinentTailPattern))),
      x |-> IF coordMatch.ok THEN parseInt(coordMatch.caps[1]).v ELSE 0,
      y |-> IF coordMatch.ok THEN parseInt(coordMatch.caps[2]).v ELSE 0,
      continent |-> IF continentMatch.ok THEN <<"K">> \o continentMatch.caps[1]
                    ELSE <<"U", "n", "k", "n", "o", "w", "n">>]

\* String.prototype.replace(/,/g, '')
RemoveCommas_none(s) == s
RemoveCommas(s) == SelectSeq(s, LAMBDA c : c # ",")

\* _parsePoints: the first run of digits once the commas are removed, 0 when
\* there is none.
_parsePoints(pointsCell) ==
  LET pointsMatch == Match(RemoveCommas(pointsCell), <<DigitRun(1, 0)>>)
  IN IF pointsMatch.ok THEN parseInt(pointsMatch.caps[1]).v ELSE 0

\* /\[(.*?)\]/: the leftmost "[" that has a "]" after it on the same line,
\* up to the first such "]".
BracketMatch(s) ==
  LET close(i) == {j \in (i + 1)..Len(s) : s[j] = "]"}
      first(i) == CHOOSE j \in close(i) : \A o \in close(i) : j <= o
      starts == {i \in 1..Len(s) :
                   /\ s[i] = "["
                   /\ close(i) # {}
                   /\ \A j \in (i + 1)..(first(i) - 1) : s[j] # "\n"}
  IN IF starts = {} THEN NoMatch
     ELSE LET i == CHOOSE m \in starts : \A o \in starts : m <= o
          IN [ok |-> TRUE, start |-> i, end |-> first(i) + 1,
              caps |-> <<SubSeq(s, i + 1, first(i) - 1)>>]

\* _parsePlayerAndTribe: the tribe tag between brackets (null when there is
\* none) and the player name, the text with the brackets cut out.
_parsePlayerAndTribe(ownerCell) ==
  LET found == BracketMatch(ownerCell)
  IN [player |-> Trim(Remove(ownerCell, found)),
      tribe |-> IF found.ok THEN Trim(found.caps[1]) ELSE Null]

\* Number(text) of a run of digits (the Date constructor's ToNumber).
ToNumber(digits) == Num(DigitsValue(digits, 0))

\* The calendar year and month a day number falls in (ECMAScript
\* YearFromTime, MonthFromTime), for the years the model's dates reach.
YearFromDay(day) ==
  CHOOSE y \in 1800..2200 : DayFromYear(y) <= day /\ day < DayFromYear(y + 1)
MonthFromDay(day) ==
  LET y == YearFromDay(day)
      inYear == day - DayFromYear(y)
  IN CHOOSE m \in 0..11 :
       /\ MonthStart(y, m) <= inYear
       /\ m < 11 => inYear < MonthStart(y, m + 1)

\* Decimal rendering padded with zeros to at least n digits.
RECURSIVE Pad(_, _)
Pad(s, n) == IF Len(s) >= n THEN s ELSE Pad(<<"0">> \o s, n)

\* Date.prototype.toISOString: the UTC rendering of a local time value in a
\* zone tz minutes ahead of UTC.
toISOString(date, tz) ==
  LET t == date.t - tz * 60
      day == t \div 86400
      inDay == t % 86400
      y == YearFromDay(day)
      m == MonthFromDay(day)
      d == day - DayFromYear(y) - MonthStart(y, m) + 1
  IN Pad(NumToStr(y), 4) \o <<"-">> \o Pad(NumToStr(m + 1), 2) \o <<"-">>
       \o Pad(NumToStr(d), 2) \o <<"T">> \o Pad(NumToStr(inDay \div 3600), 2)
       \o <<":">> \o Pad(NumToStr((inDay % 3600) \div 60), 2) \o <<":">>
       \o Pad(NumToStr(inDay % 60), 2) \o <<".", "0", "0", "0", "Z">>

\* The date patterns of _parseTimestamp, in the order they are tried:
\* DD.MM.YYYY HH:MM, YYYY-MM-DD HH:MM, MM/DD/YYYY HH:MM.
dateFormats ==
  <<<<DigitRun(1, 2), Lit("."), DigitRun(1, 2), Lit("."), DigitRun(4, 4),
      SpaceRun(1), DigitRun(1, 2), Lit(":"), DigitRun(2, 2)>>,
    <<DigitRun(4, 4), Lit("-"), DigitRun(1, 2), Lit("-"), DigitRun(1, 2),
      SpaceRun(1), DigitRun(1, 2), Lit(":"), DigitRun(2, 2)>>,
    <<DigitRun(1, 2), Lit("/"), DigitRun(1, 2), Lit("/"), DigitRun(4, 4),
      SpaceRun(1), DigitRun(1, 2), Lit(":"), DigitRun(2, 2)>>>>

\* const [, day, month, year, hour, minute] = match;
\* new Date(year, month - 1, day, hour, minute): the captures are taken in
\* this order whatever the order of the pattern that matched.
DateOfMatch(caps) ==
  LET day == caps[1]
      month == caps[2]
      year == caps[3]
      hour == caps[4]
      minute == caps[5]
  IN NewDate(ToNumber(year), Minus1(ToNumber(month)), ToNumber(day),
             ToNumber(hour), ToNumber(minute), Num(0))

\* _parseTimestamp: the first pattern that matches gives a local time,
\* returned in ISO form; a cell that matches none is returned trimmed, and
\* an empty one becomes the current instant.
_parseTimestamp(timestampCell, tz, now) ==
  LET tried == [f \in DOMAIN dateFormats |-> Match(timestampCell, dateFormats[f])]
      matching == {f \in DOMAIN tried : tried[f].ok}
  IN IF matching # {}
       THEN toISOString(
              DateOfMatch(tried[CHOOSE m \in matching : \A o \in matching : m <= o].caps),
              tz)
     ELSE IF Trim(timestampCell) # <<>> THEN Trim(timestampCell)
     ELSE now

\* createEnnoblementEvent
createEnnoblementEvent(data) ==
  [villageName |-> data.villageName, x |-> data.x, y |-> data.y,
   continent |-> data.continent, points |-> data.points,
   oldPlayer |-> data.oldPlayer, oldTribe |-> data.oldTribe,
   newPlayer |-> data.newPlayer, newTribe |-> data.newTribe,
   timestamp |-> data.timestamp]

\* if (!villageName || !oldPlayer || !newPlayer || !timestamp) return null;
lacksRequired_villageOnly(villageName, oldPlayer, newPlayer, timestamp) ==
  villageName = <<>>
lacksRequired(villageName, oldPlayer, newPlayer, timestamp) ==
  villageName = <<>> \/ oldPlayer = <<>> \/ newPlayer = <<>> \/ timestamp = <<>>

\* _parseRow: the record of a row, <<>> for null.  The timestamp is read
\* from the fifth cell, or from the fourth when there is no fifth or it is
\* empty.
_parseRow(cells, tz, now) ==
  LET cellTexts == [i \in 1..Len(cells) |-> Trim(cells[i])]
  IN IF Len(cellTexts) < 4 THEN <<>>
     ELSE LET village == _parseVillageAndCoords(cellTexts[1])
              points == _parsePoints(cellTexts[2])
              old == _parsePlayerAndTribe(cellTexts[3])
              new == _parsePlayerAndTribe(cellTexts[4])
              timestamp ==
                _parseTimestamp(IF Len(cellTexts) >= 5 /\ cellTexts[5] # <<>>
                                  THEN cellTexts[5] ELSE cellTexts[4], tz, now)
          IN IF lacksRequired(village.villageName, old.player, new.player,
                              timestamp)
               THEN <<>>
               ELSE <<createEnnoblementEvent(
                        [villageName |-> village.villageName,
                         x |-> village.x, y |-> village.y,
                         continent |-> village.continent, points |-> points,
                         oldPlayer |-> old.player, oldTribe |-> old.tribe,
                         newPlayer |-> new.player, newTribe |-> new.tribe,
                         timestamp |-> timestamp])>>

\* The selectors scrape tries, in order: the configured one, then the fixed
\* fallbacks.
rowSelectors_fallbacksOnly(cssSelector) ==
  <<"table tbody tr", "table.table tbody tr",
    "table:contains(Ennoblements) tbody tr", "table:contains(Village) tbody tr",
    "table:contains(Old Owner) tbody tr", "tbody tr", "tr">>
rowSelectors(cssSelector) ==
  <<cssSelector, "table tbody tr", "table.table tbody tr",
    "table:contains(Ennoblements) tbody tr", "table:contains(Village) tbody tr",
    "table:contains(Old Owner) tbody tr", "tbody tr", "tr">>

\* $(selector): whether the selector picks a tr element, by the table the
\* row stands in (its id, its class, whether the row is inside a tbody,
\* the words its text contains).
Selects(selector, row) ==
  LET at == row.place
  IN CASE selector = "tr" -> TRUE
       [] selector = "tbody tr" -> at.tbody
       [] selector = "table tbody tr" -> at.tbody
       [] selector = "table.table tbody tr" -> at.tbody /\ at.class = "table"
       [] selector = "table:contains(Ennoblements) tbody tr" ->
            at.tbody /\ "Ennoblements" \in at.contains
       [] selector = "table:contains(Village) tbody tr" ->
            at.tbody /\ "Village" \in at.contains
       [] selector = "table:contains(Old Owner) tbody tr" ->
            at.tbody /\ "Old Owner" \in at.contains
       [] selector = "#ennoblements tr" -> at.id = "ennoblements"
       [] OTHER -> FALSE
Select(selector, html) == SelectSeq(html, LAMBDA row : Selects(selector, row))

\* if (cells.length < 4 || row.find('th').length > 0) continue;
skipsRow_cellsOnly(row) == Len(row.cells) < 4
skipsRow(row) == Len(row.cells) < 4 \/ row.th > 0

\* The loop over the rows: a skipped row, a row whose parse throws (caught
\* and logged) and a row that parses to null add nothing.
RECURSIVE parseRows(_, _, _)
parseRows(rows, tz, now) ==
  IF rows = <<>> THEN <<>>
  ELSE LET row == Head(rows)
           event == IF skipsRow(row) \/ row.throws THEN <<>>
                    ELSE _parseRow(row.cells, tz, now)
       IN event \o parseRows(Tail(rows), tz, now)

NoRowsFound == "No ennoblement table rows found on page"

\* scrape, from the document on: the rows of the first selector that yields
\* any, parsed in order; an error when no selector yields a row.
scrape(html, cssSelector, tz, now) ==
  LET selectors == rowSelectors(cssSelector)
      yielding == {i \in 1..Len(selectors) : Select(selectors[i], html) # <<>>}
  IN IF yielding = {}
       THEN [threw |-> TRUE, message |-> NoRowsFound, selector |-> "",
             events |-> <<>>]
       ELSE LET i == CHOOSE m \in yielding : \A o \in yielding : m <= o
            IN [threw |-> FALSE, message |-> "", selector |-> selectors[i],
                events |-> parseRows(Select(selectors[i], html), tz, now)]


(***************************************************************************)
(* Inputs of the scraper: documents as cheerio sees them, a list of tr      *)
(* elements in document order.                                              *)
(***************************************************************************)
\* Longest document (number of tr elements).
MaxRows == 2

\* Where a tr stands: the id and class of its table, whether it is inside a
\* tbody, and which of the words the selectors look for the table contains.
InClassTable ==
  [id |-> "", class |-> "table", tbody |-> TRUE, contains |-> {"Village", "Old Owner"}]
InPlainTable == [id |-> "", class |-> "", tbody |-> TRUE, contains |-> {}]
InBareTable ==
  [id |-> "ennoblements", class |-> "", tbody |-> FALSE, contains |-> {"Ennoblements"}]

\* A tr element: its place, the number of its th cells, the texts of its td
\* cells, and whether reading it throws.
Row(place, th, cells, throws) ==
  [place |-> place, th |-> th, cells |-> cells, throws |-> throws]

\* A conquest in the ennoblements table.
rowAlpha ==
  Row(InClassTable, 0,
    <<<<"A", "l", "p", "h", "a", " ", "(", "4", "5", "0", "|", "4", "6", "5", ")", " ", "K", "4", "4">>,
     <<"1", ",", "2", "3", "4">>,
     <<"A", "l", "i", " ", "[", "S", "i", "S", "u", "]">>,
     <<"V", "e", "l", "i", " ", "[", "E", "n", "e", "m", "y", "]">>,
     <<"2", "0", "2", "5", "-", "0", "8", "-", "0", "2", " ", "-", " ", "0", "9", ":", "0", "0", ":", "0", "0">>>>,
    FALSE)

\* Another one in the same table.
rowDelta ==
  Row(InClassTable, 0,
    <<<<"D", "e", "l", "t", "a", " ", "(", "4", "4", "9", "|", "4", "7", "0", ")", " ", "K", "4", "4">>,
     <<"2", ",", "5", "6", "7">>,
     <<"O", "y", "a", " ", "[", "E", "n", "e", "m", "y", "]">>,
     <<"E", "c", "e", " ", "[", "S", "i", "S", "u", "]">>,
     <<"2", "0", "2", "5", "-", "0", "8", "-", "0", "2", " ", "-", " ", "1", "0", ":", "0", "0", ":", "0", "0">>>>,
    FALSE)

\* Four cells, no time cell, in a table without the class.
rowBeta ==
  Row(InPlainTable, 0,
    <<<<"B", "e", "t", "a", " ", "(", "4", "5", "3", "|", "4", "6", "5", ")", " ", "K", "4", "4">>,
     <<"8", "9", "0">>,
     <<"C", "a", "n">>,
     <<"N", "u", "r", " ", "[", "S", "i", "S", "u", "]">>>>,
    FALSE)

\* A row in a table without tbody, its time as DD.MM.YYYY HH:MM.
rowGamma ==
  Row(InBareTable, 0,
    <<<<"G", "a", "m", "m", "a", " ", "(", "4", "5", "1", "|", "4", "6", "3", ")", " ", "K", "4", "4">>,
     <<>>,
     <<"E", "f", "e">>,
     <<"A", "d", "a">>,
     <<"1", "5", ".", "1", "2", ".", "2", "0", "2", "4", " ", "1", "4", ":", "3", "0">>>>,
    FALSE)

\* The header row: th cells only.
rowHeader ==
  Row(InClassTable, 5,
    <<>>,
    FALSE)

\* A row that opens with a th cell before five well-formed td cells.
rowNumbered ==
  Row(InClassTable, 1,
    <<<<"Z", "e", "t", "a", " ", "(", "4", "5", "0", "|", "4", "6", "6", ")", " ", "K", "4", "4">>,
     <<"1", "0", "0">>,
     <<"A", "l", "i", " ", "[", "S", "i", "S", "u", "]">>,
     <<"V", "e", "l", "i">>,
     <<"2", "0", "2", "5", "-", "0", "8", "-", "0", "2", " ", "-", " ", "0", "9", ":", "0", "0", ":", "0", "0">>>>,
    FALSE)

\* Three cells.
rowShort ==
  Row(InPlainTable, 0,
    <<<<"T", "h", "e", "t", "a", " ", "(", "4", "5", "0", "|", "4", "6", "7", ")", " ", "K", "4", "4">>,
     <<"1", "0", "0">>,
     <<"A", "l", "i">>>>,
    FALSE)

\* The old owner cell names a tribe and no player.
rowNoOwner ==
  Row(InClassTable, 0,
    <<<<"I", "o", "t", "a", " ", "(", "4", "5", "0", "|", "4", "6", "8", ")", " ", "K", "4", "4">>,
     <<"1", "0", "0">>,
     <<"[", "S", "i", "S", "u", "]">>,
     <<"V", "e", "l", "i">>,
     <<"2", "0", "2", "5", "-", "0", "8", "-", "0", "2", " ", "-", " ", "0", "9", ":", "0", "0", ":", "0", "0">>>>,
    FALSE)

\* A row on which reading the cells throws.
rowBroken ==
  Row(InClassTable, 0,
    <<<<"E", "t", "a", " ", "(", "4", "5", "0", "|", "4", "6", "9", ")", " ", "K", "4", "4">>,
     <<"1", "0", "0">>,
     <<"A", "l", "i">>,
     <<"V", "e", "l", "i">>,
     <<"2", "0", "2", "5", "-", "0", "8", "-", "0", "2", " ", "-", " ", "0", "9", ":", "0", "0", ":", "0", "0">>>>,
    TRUE)

Rows == {rowAlpha, rowDelta, rowBeta, rowGamma, rowHeader, rowNumbered, rowShort, rowNoOwner, rowBroken}


\* What a person reads in each row: whether its cells name a village and
\* both players ("record"), or lack one of them ("null"), or cannot be read
\* ("throws"), and the village it is about.
RowTable ==
  {[row |-> rowAlpha, parses |-> "record", village |-> <<"A", "l", "p", "h", "a">>],
   [row |-> rowDelta, parses |-> "record", village |-> <<"D", "e", "l", "t", "a">>],
   [row |-> rowBeta, parses |-> "record", village |-> <<"B", "e", "t", "a">>],
   [row |-> rowGamma, parses |-> "record", village |-> <<"G", "a", "m", "m", "a">>],
   [row |-> rowHeader, parses |-> "null", village |-> <<>>],
   [row |-> rowNumbered, parses |-> "record", village |-> <<"Z", "e", "t", "a">>],
   [row |-> rowShort, parses |-> "null", village |-> <<>>],
   [row |-> rowNoOwner, parses |-> "null", village |-> <<>>],
   [row |-> rowBroken, parses |-> "throws", village |-> <<>>]}
RowOf(row) == CHOOSE r \in RowTable : r.row = row

\* The documents the site serves.
Documents == UNION {[1..n -> Rows] : n \in 0..MaxRows}
\* CSS_SELECTOR of the configuration: the default, or one by id.
CssSelectors == {"table.table tbody tr", "#ennoblements tr"}
\* Minutes the local zone is ahead of UTC.
TimeZones == {0, 180}

(***************************************************************************)
(* Inputs of the row parser: cell texts, and what a person reads in them.   *)
(***************************************************************************)
\* Village cells, with the village name a person reads ("" for none).
VillageCells ==
  {[text |-> <<"A", "l", "p", "h", "a", " ", "(", "4", "5", "0", "|", "4", "6", "5", ")", " ", "K", "4", "4">>, village |-> <<"A", "l", "p", "h", "a">>],
   [text |-> <<"(", "4", "5", "0", "|", "4", "6", "5", ")", " ", "K", "4", "4">>, village |-> <<>>],
   [text |-> <<"B", "e", "t", "a">>, village |-> <<"B", "e", "t", "a">>]}
\* Points cells, with the number they state: the first run of digits once
\* thousands separators are dropped, 0 when there is no digit.
PointsCells ==
  {[text |-> <<"1", ",", "2", "3", "4">>, points |-> 1234],
   [text |-> <<>>, points |-> 0],
   [text |-> <<"n", "/", "a">>, points |-> 0],
   [text |-> <<"a", "b", " ", "1", "2", " ", "x", " ", "7">>, points |-> 12]}
\* Owner cells, with the player a person reads ("" for none).
OwnerCells ==
  {[text |-> <<"A", "l", "i", " ", "[", "S", "i", "S", "u", "]">>, player |-> <<"A", "l", "i">>],
   [text |-> <<"V", "e", "l", "i">>, player |-> <<"V", "e", "l", "i">>],
   [text |-> <<"[", "S", "i", "S", "u", "]">>, player |-> <<>>]}
\* Time cells in the three date patterns, with the ISO text of the local
\* time they name, in a zone at UTC and in one 180 minutes ahead.
DatedCells ==
  {[text |-> <<"1", "5", ".", "1", "2", ".", "2", "0", "2", "4", " ", "1", "4", ":", "3", "0">>,
    utc |-> <<"2", "0", "2", "4", "-", "1", "2", "-", "1", "5", "T", "1", "4", ":", "3", "0", ":", "0", "0", ".", "0", "0", "0", "Z">>,
    ahead |-> <<"2", "0", "2", "4", "-", "1", "2", "-", "1", "5", "T", "1", "1", ":", "3", "0", ":", "0", "0", ".", "0", "0", "0", "Z">>],
   [text |-> <<"2", "0", "2", "5", "-", "0", "8", "-", "0", "2", " ", "1", "0", ":", "0", "0">>,
    utc |-> <<"2", "0", "2", "5", "-", "0", "8", "-", "0", "2", "T", "1", "0", ":", "0", "0", ":", "0", "0", ".", "0", "0", "0", "Z">>,
    ahead |-> <<"2", "0", "2", "5", "-", "0", "8", "-", "0", "2", "T", "0", "7", ":", "0", "0", ":", "0", "0", ".", "0", "0", "0", "Z">>],
   [text |-> <<"1", "2", "/", "1", "5", "/", "2", "0", "2", "4", " ", "0", "1", ":", "3", "0">>,
    utc |-> <<"2", "0", "2", "4", "-", "1", "2", "-", "1", "5", "T", "0", "1", ":", "3", "0", ":", "0", "0", ".", "0", "0", "0", "Z">>,
    ahead |-> <<"2", "0", "2", "4", "-", "1", "2", "-", "1", "4", "T", "2", "2", ":", "3", "0", ":", "0", "0", ".", "0", "0", "0", "Z">>]}
\* The fifth cell of a row: absent, empty, in the site's own format, or in
\* one of the date patterns.
TimeCells == {<<>>, <<<<>>>>, <<tsMorning>>} \cup {<<c.text>> : c \in DatedCells}

TextsOf(cells) == {c.text : c \in cells}
\* One-row documents, the row made of any cells.
OneRowDocuments ==
  {<<Row(InClassTable, 0, <<v, p, o, n>> \o t, FALSE)>> :
     v \in TextsOf(VillageCells), p \in TextsOf(PointsCells),
     o \in TextsOf(OwnerCells), n \in TextsOf(OwnerCells), t \in TimeCells}

(***************************************************************************)
(* State.                                                                   *)
(***************************************************************************)
VARIABLES
  strategy,        \* which use case is wired: "timestamp" or "hash"
  filters,         \* this.filters
  recipients,      \* this.recipients
  template,        \* this.messageTemplate
  page,            \* what scraper.scrape() returns now
  store,           \* the state file: lastProcessedTimestamp, lastHash
  executionCount,  \* this.executionCount
  errorCount,      \* this.errorCount (hash strategy)
  cyc,             \* per slot: the runOnce call in flight
  job,             \* per slot: the trigger that runs the call (App)
  started,         \* history: runOnce calls so far, over all restarts
  prev,            \* history: the call that returned last
  pageChanged,     \* history: the page changed since the last scrape
  crashed,         \* history: what a call stopped by a crash had handed over
  scraper,         \* the CheerioScraper, the document served, its scrape call
  hashing,         \* two record lists and the hashes runOnce takes of them
  disk,            \* the state file, its temporary, and the FileStateStore call
  notifier,        \* the WhatsAppNotifier and its notifyMany call
  routes,          \* InspectionRoutes: the /filters requests answered
  seen             \* history: the page of the last scrape, once the site moved on

vars ==
  <<strategy, filters, recipients, template, page, store, executionCount,
    errorCount, cyc, job, started, prev, pageChanged, crashed, scraper,
    hashing, disk, notifier, routes, seen>>

\* The parts that stand by while the use cases and the scraper run.
others == <<hashing, disk, notifier, routes, seen>>

config == <<strategy, filters, recipients, template>>

\* Two runOnce calls can be in flight under App; a serial caller uses slot 1.
Slots == {1, 2}

\* A slot without a call.  pc is the await the call is suspended at, or how
\* its promise settled.
IdleCycle ==
  [pc |-> "idle", allEvents |-> <<>>, firstRun |-> FALSE,
   newEvents |-> <<>>, filteredEvents |-> <<>>, newHash |-> NoHash,
   attempt |-> 0, handed |-> <<>>, notified |-> "no",
   loaded |-> <<>>, saveCalls |-> 0, saved |-> <<>>, writes |-> 0, error |-> "",
   samePage |-> FALSE, afterCrash |-> <<>>, notifyMany |-> <<>>]

\* A scraper that has not been called; pc is "get" while httpClient.get is
\* awaited, then "returned" or "threw".
IdleScraper ==
  [cssSelector |-> "table.table tbody tr", tz |-> 0, now |-> tsIso,
   html |-> <<>>, pc |-> "idle", selector |-> "", events |-> <<>>,
   message |-> ""]

IdleHashing ==
  [events |-> <<>>, other |-> <<>>, pc |-> "idle", lastHash |-> NoHash,
   newHash |-> NoHash, unchanged |-> FALSE]
\* A path that names no file.
Absent == <<"ENOENT">>
IdleDisk ==
  [file |-> Absent, tmp |-> Absent, pc |-> "idle", op |-> "none",
   arg |-> Null, state |-> <<>>, result |-> Undefined, before |-> Absent,
   failed |-> FALSE, crashes |-> 0, calls |-> 0, register |-> Null,
   saves |-> <<>>]
\* kind says what stands behind the notifier port: "port" for any
\* implementation (the use case on its own), and under App "none" until
\* initializeWhatsAppGracefully is done, then "whatsapp" or "mock".
\* For init(): isInitializing and initPromise as the object holds them,
\* performing and cleaning the _performInit calls that await
\* client.initialize() and _cleanup(), waiting the callers that were handed
\* the promise in flight, and as history the init() calls and Client objects
\* so far and what the last call found and did.
IdleNotifier ==
  [kind |-> "port", recipients |-> <<>>, attempt |-> 0,
   client |-> FALSE, isReady |-> FALSE, numbers |-> <<>>, pc |-> "idle",
   at |-> [client |-> FALSE, isReady |-> FALSE], sends |-> <<>>,
   isInitializing |-> FALSE, initPromise |-> "none", performing |-> 0,
   cleaning |-> 0, waiting |-> 0, inits |-> 0, clients |-> 0,
   last |-> [ready |-> FALSE, created |-> FALSE]]
\* No /filters request yet.  changed is the last request that assigned
\* this.filters and was whether filters was truthy when it arrived; status
\* is what GET /filters/status has answered since ("none": not asked).
\* No page has been replaced since the last scrape.
NotSeen == <<>>
IdleRoutes == [changed |-> "none", was |-> FALSE, status |-> "none"]
OthersIdle ==
  /\ hashing = IdleHashing /\ disk = IdleDisk /\ notifier = IdleNotifier
  /\ routes = IdleRoutes
  /\ seen = NotSeen

Settled == {"resolved", "rejected"}
InFlight(p) == cyc[p].pc \notin Settled \cup {"idle"}

IdleJob == [pc |-> "idle", kind |-> "none", attempt |-> 0]
Quiet == \A p \in Slots : cyc[p].pc = "idle" /\ job[p].pc = "idle"

\* What is remembered of the call that returned last: how it ended, its
\* writes, and what it had handed to the notifier when its save failed.
NoPrev == [ended |-> "none", writes |-> 0, unsaved |-> <<>>]
Summary(c) ==
  [ended |-> c.pc, writes |-> c.writes,
   unsaved |-> IF c.error = "save" THEN c.handed ELSE <<>>]

\* throw: the promise of runOnce rejects (the retry loop is left).
Reject(c, why) == [c EXCEPT !.pc = "rejected", !.attempt = 0, !.error = why]

Init ==
  /\ strategy \in {"timestamp", "hash"}
  /\ filters \in {NoFilters, WiredFilters}
  /\ recipients \in RecipientLists
  /\ strategy = "timestamp" => recipients # <<>>
  /\ template \in Templates
  /\ page \in Pages
  /\ \/ /\ strategy = "timestamp"
        /\ store \in [lastProcessedTimestamp : {Null} \cup Timestamps,
                      lastHash : {NoHash}]
     \/ /\ strategy = "hash"
        /\ store \in [lastProcessedTimestamp : {Null},
                      lastHash : {NoHash} \cup KnownHashes]
  /\ executionCount = 0
  /\ errorCount = 0
  /\ cyc = [p \in Slots |-> IdleCycle]
  /\ job = [p \in Slots |-> IdleJob]
  /\ started = 0
  /\ prev = NoPrev
  /\ pageChanged = FALSE
  /\ crashed = <<>>
  /\ scraper = IdleScraper
  /\ OthersIdle

(***************************************************************************)
(* runOnce, both strategies: the call and its return.                       *)
(***************************************************************************)
\* runOnce() is entered in slot p: executionCount++ and scraper.scrape() is
\* awaited.
Begin(p) ==
  /\ started < MaxCycles
  /\ cyc[p].pc = "idle"
  /\ cyc' = [cyc EXCEPT ![p] =
               [IdleCycle EXCEPT !.pc = "scrape", !.afterCrash = crashed]]
  /\ executionCount' = executionCount + 1
  /\ started' = started + 1
  /\ crashed' = <<>>

\* The promise of the call in slot p has settled and its caller goes on.
End(p) ==
  /\ cyc[p].pc \in Settled
  /\ cyc' = [cyc EXCEPT ![p] = IdleCycle]
  /\ prev' = Summary(cyc[p])

\* A caller that awaits each runOnce before the next (the scripts and tests).
Call ==
  /\ Quiet
  /\ Begin(1)
  /\ UNCHANGED <<config, scraper, others, page, store, errorCount, job, prev, pageChanged>>

Return ==
  /\ job[1].pc = "idle"
  /\ End(1)
  /\ UNCHANGED <<config, scraper, others, page, store, executionCount, errorCount, job,
                 started, pageChanged, crashed>>

(***************************************************************************)
(* runOnce of the timestamp strategy, one action per await.                 *)
(***************************************************************************)
\* The store between the notifier call and its return: not written.
storeWhileNotifying_early(st, c) ==
  IF c.newEvents # <<>>
    THEN [st EXCEPT !.lastProcessedTimestamp = c.newEvents[1].timestamp]
    ELSE [st EXCEPT !.lastHash = c.newHash]
storeWhileNotifying(st, c) == st

\* The save calls issued for the new events: one, for newEvents[0].
savesIssued_perRecord(newEvents) == Len(newEvents)
savesIssued(newEvents) == 1

\* After _notifyWithRetry returned: save the cursor if there were new events.
A_AfterNotify(c) ==
  IF cursorAdvances(c.newEvents, c.filteredEvents)
    THEN [c EXCEPT !.pc = "persist", !.attempt = 0,
            !.saveCalls = @ + savesIssued(c.newEvents),
            !.saved = <<latestProcessedEvent(c.newEvents, c.filteredEvents).timestamp>>]
    ELSE [c EXCEPT !.pc = "resolved", !.attempt = 0]

\* scraper.scrape() settles: it threw, or returned the page; an empty page
\* ends the cycle before anything is loaded.
A_Scrape(p) ==
  /\ strategy = "timestamp"
  /\ cyc[p].pc = "scrape"
  /\ \/ /\ cyc' = [cyc EXCEPT ![p] = Reject(@, "scrape")]
        /\ UNCHANGED pageChanged
     \/ /\ cyc' = [cyc EXCEPT ![p] =
                     [@ EXCEPT !.allEvents = page,
                               !.samePage = ~pageChanged,
                               !.pc = IF page = <<>> THEN "resolved" ELSE "load"]]
        /\ pageChanged' = FALSE
  /\ UNCHANGED <<config, scraper, others, page, store, executionCount, errorCount, job,
                 started, prev, crashed>>

\* if (filteredEvents.length > 0): only then is a message rendered and sent.
shouldNotify_always(filteredEvents) == TRUE
shouldNotify(filteredEvents) == Len(filteredEvents) > 0

\* loadLastProcessedTimestamp() settles; the code runs on to its next await:
\* the first-run save, the first notifier call, the cursor save, or the end.
A_Load(p) ==
  /\ strategy = "timestamp"
  /\ cyc[p].pc = "load"
  /\ LET c == cyc[p]
         lastProcessedTimestamp == store.lastProcessedTimestamp
         found == findNewEvents(c.allEvents, lastProcessedTimestamp)
         filteredEvents == filterNewEvents(found.events, filters)
         read == [c EXCEPT !.loaded = Append(@, lastProcessedTimestamp)]
         detected == [read EXCEPT !.newEvents = found.events,
                                  !.filteredEvents = filteredEvents]
     IN cyc' = [cyc EXCEPT ![p] =
          IF ~Truthy(lastProcessedTimestamp)
            THEN [read EXCEPT !.firstRun = TRUE, !.pc = "persist",
                           !.saveCalls = @ + 1,
                           !.saved = <<latestEvent(c.allEvents).timestamp>>]
          ELSE IF found.threw THEN Reject(read, "parse")
          ELSE IF shouldNotify(filteredEvents)
            THEN [detected EXCEPT !.pc = "notify", !.attempt = 1,
                                  !.handed = <<renderMessage(filteredEvents)>>]
          ELSE A_AfterNotify(detected)]
  /\ UNCHANGED <<config, scraper, others, page, store, executionCount, errorCount, job,
                 started, prev, pageChanged, crashed>>

\* WhatsAppNotifier.sendNotification: the calls of notifyMany it makes, each
\* the list of numbers passed; none without recipients of its own.
sendNotification(ownRecipients) ==
  IF ownRecipients # Null /\ Len(ownRecipients) > 0
    THEN <<ownRecipients>> ELSE <<>>

\* How this.notifier.sendNotification(message) can settle.  Behind the bare
\* port anything may happen.  The mock notifier of App has no
\* sendNotification member: the call is a TypeError.  A WhatsAppNotifier
\* without recipients returns at once; with recipients it awaits notifyMany,
\* which throws 'not ready' or resolves.
sendOutcomes(n) ==
  IF n.kind = "port" THEN {"sent", "notReady", "error"}
  ELSE IF n.kind = "mock" THEN {"error"}
  ELSE IF sendNotification(n.recipients) = <<>> THEN {"sent"}
  ELSE IF n.client /\ n.isReady THEN {"sent"}
  ELSE {"notReady"}

\* error.message.includes('not ready') || includes('Call init() first')
skipsRetry_never(outcome) == FALSE
skipsRetry(outcome) == outcome = "notReady"

\* _notifyWithRetry after an attempt settled as c.notified says.
A_Notified_once(c) ==
  IF c.notified = "sent" \/ skipsRetry(c.notified) THEN A_AfterNotify(c)
  ELSE Reject(c, "notify")
A_Notified(c) ==
  IF c.notified = "sent" \/ skipsRetry(c.notified) THEN A_AfterNotify(c)
  ELSE IF c.attempt < NotifyMaxRetries THEN [c EXCEPT !.attempt = @ + 1]
  ELSE Reject(c, "notify")

\* notifier.sendNotification(message) settles (_notifyWithRetry): sent; or
\* the notifier is not ready, which is logged and skipped; or another error,
\* retried up to maxRetries attempts and then thrown.
A_Notify(p) ==
  /\ strategy = "timestamp"
  /\ cyc[p].pc = "notify"
  /\ \E outcome \in sendOutcomes(notifier) :
       cyc' = [cyc EXCEPT ![p] =
                 A_Notified([@ EXCEPT
                    !.notified = outcome,
                    !.notifyMany =
                       IF outcome = "sent" /\ notifier.kind = "whatsapp"
                         THEN sendNotification(notifier.recipients) ELSE @])]
  /\ store' = storeWhileNotifying(store, cyc[p])
  /\ UNCHANGED <<config, scraper, others, page, executionCount, errorCount, job, started,
                 prev, pageChanged, crashed>>

\* saveLastProcessedTimestamp threw: the catch of runOnce logs and rethrows.
saveFailed_swallowed(c) == [c EXCEPT !.pc = "resolved", !.error = "save"]
saveFailed(c) == Reject(c, "save")

\* saveLastProcessedTimestamp(timestamp) settles: written, or it threw.
A_Persist(p) ==
  /\ strategy = "timestamp"
  /\ cyc[p].pc = "persist"
  /\ \/ /\ store' = [store EXCEPT !.lastProcessedTimestamp = cyc[p].saved[1]]
        /\ cyc' = [cyc EXCEPT ![p] = [@ EXCEPT !.pc = "resolved", !.writes = @ + 1]]
     \/ /\ cyc' = [cyc EXCEPT ![p] = saveFailed(@)]
        /\ UNCHANGED store
  /\ UNCHANGED <<config, scraper, others, page, executionCount, errorCount, job, started,
                 prev, pageChanged, crashed>>

(***************************************************************************)
(* runOnce of the hash strategy, one action per await.  Every port call     *)
(* goes through _retryWithBackoff: attempts 0..maxRetries, then the error.  *)
(***************************************************************************)
\* saveLastHash(newHash) is awaited (first attempt).
B_StartSave(c) ==
  [c EXCEPT !.pc = "persist", !.attempt = 0, !.saveCalls = @ + 1,
            !.saved = <<c.newHash>>]

\* One attempt of the notify operation: without a ready notifier, or without
\* recipients, it returns at once; otherwise notifyMany is awaited.
B_NotifyAttempt(c, ready, to, message) ==
  IF ~ready \/ Len(to) = 0
    THEN B_StartSave([c EXCEPT !.notified = "skipped"])
    ELSE [c EXCEPT !.pc = "notify",
                   !.handed = <<[recipients |-> to, message |-> message]>>]

\* catch (error) { this.errorCount++; ... throw ... }
counted_not(count) == count
counted(count) == count + 1

\* _retryWithBackoff: the operation failed on attempt `attempt` (from 0);
\* the error is thrown when that was the last one.
retriesExhausted_first(attempt) == attempt = 0
retriesExhausted(attempt) == attempt = BackoffMaxRetries

\* scrape() settles: a failure is retried, the last one thrown; the page is
\* filtered (which throws without filters) and an empty selection ends the
\* cycle; otherwise the hash is computed and loadLastHash() awaited.
B_Scrape(p) ==
  /\ strategy = "hash"
  /\ cyc[p].pc = "scrape"
  /\ LET c == cyc[p]
         filtered == filterEvents(page, filters)
     IN \/ /\ c.attempt < BackoffMaxRetries
           /\ ~retriesExhausted(c.attempt)
           /\ cyc' = [cyc EXCEPT ![p] = [c EXCEPT !.attempt = @ + 1]]
           /\ UNCHANGED <<errorCount, pageChanged>>
        \/ /\ retriesExhausted(c.attempt)
           /\ cyc' = [cyc EXCEPT ![p] = Reject(c, "scrape")]
           /\ errorCount' = counted(errorCount)
           /\ UNCHANGED pageChanged
        \/ /\ filtered.threw
           /\ cyc' = [cyc EXCEPT ![p] =
                        Reject([c EXCEPT !.allEvents = page,
                                         !.samePage = ~pageChanged], "filter")]
           /\ errorCount' = counted(errorCount)
           /\ pageChanged' = FALSE
        \/ /\ ~filtered.threw
           /\ cyc' = [cyc EXCEPT ![p] =
                        [c EXCEPT !.allEvents = page,
                                  !.samePage = ~pageChanged,
                                  !.filteredEvents = filtered.events,
                                  !.newHash = IF Len(filtered.events) = 0 THEN NoHash
                                              ELSE hashSignature(buildSignature(filtered.events)),
                                  !.attempt = 0,
                                  !.pc = IF Len(filtered.events) = 0
                                           THEN "resolved" ELSE "load"]]
           /\ pageChanged' = FALSE
           /\ UNCHANGED errorCount
  /\ UNCHANGED <<config, scraper, others, page, store, executionCount, job, started, prev,
                 crashed>>

\* loadLastHash() settles: an unchanged hash ends the cycle; a changed one
\* renders the message and starts the notify operation.
B_Load(p) ==
  /\ strategy = "hash"
  /\ cyc[p].pc = "load"
  /\ \E ready \in BOOLEAN :
       LET lastHash == store.lastHash
           c == [cyc[p] EXCEPT !.loaded = Append(@, lastHash)]
       IN cyc' = [cyc EXCEPT ![p] =
            IF hashUnchanged(lastHash, c.newHash)
              THEN [c EXCEPT !.pc = "resolved"]
              ELSE B_NotifyAttempt(c, ready, recipients,
                                   renderMessageB(c.filteredEvents, template))]
  /\ UNCHANGED <<config, scraper, others, page, store, executionCount, errorCount, job,
                 started, prev, pageChanged, crashed>>

\* notifyMany(recipients, message) settles: done, or an error that is
\* retried (the operation tests the notifier again), the last one thrown.
B_Notify(p) ==
  /\ strategy = "hash"
  /\ cyc[p].pc = "notify"
  /\ LET c == cyc[p]
     IN \/ /\ cyc' = [cyc EXCEPT ![p] = B_StartSave([c EXCEPT !.notified = "sent"])]
           /\ UNCHANGED errorCount
        \/ /\ c.attempt < BackoffMaxRetries
           /\ \E ready \in BOOLEAN :
                cyc' = [cyc EXCEPT ![p] =
                          B_NotifyAttempt([c EXCEPT !.attempt = @ + 1], ready,
                                          c.handed[1].recipients, c.handed[1].message)]
           /\ UNCHANGED errorCount
        \/ /\ c.attempt = BackoffMaxRetries
           /\ cyc' = [cyc EXCEPT ![p] = Reject(c, "notify")]
           /\ errorCount' = counted(errorCount)
  /\ store' = storeWhileNotifying(store, cyc[p])
  /\ UNCHANGED <<config, scraper, others, page, executionCount, job, started, prev,
                 pageChanged, crashed>>

\* saveLastHash(newHash) settles: written; or a failure, retried, the last
\* one thrown.
B_Persist(p) ==
  /\ strategy = "hash"
  /\ cyc[p].pc = "persist"
  /\ LET c == cyc[p]
     IN \/ /\ store' = [store EXCEPT !.lastHash = c.saved[1]]
           /\ cyc' = [cyc EXCEPT ![p] =
                        [c EXCEPT !.pc = "resolved", !.attempt = 0, !.writes = @ + 1]]
           /\ UNCHANGED errorCount
        \/ /\ c.attempt < BackoffMaxRetries
           /\ cyc' = [cyc EXCEPT ![p] =
                        [c EXCEPT !.attempt = @ + 1, !.saveCalls = @ + 1]]
           /\ UNCHANGED <<store, errorCount>>
        \/ /\ c.attempt = BackoffMaxRetries
           /\ cyc' = [cyc EXCEPT ![p] = Reject(c, "save")]
           /\ errorCount' = counted(errorCount)
           /\ UNCHANGED store
  /\ UNCHANGED <<config, scraper, others, page, executionCount, job, started, prev,
                 pageChanged, crashed>>

(***************************************************************************)
(* The surroundings.                                                        *)
(***************************************************************************)
\* The site lists other conquests.  The first page is drawn in Init; later
\* ones appear between cycles (a change during a cycle is seen by the next
\* scrape only) and while a cycle is still to come.
PageChange ==
  /\ Quiet
  /\ 0 < started /\ started < MaxCycles
  /\ page' \in Pages \ {page}
  /\ pageChanged' = TRUE
  /\ UNCHANGED <<config, scraper, others, store, executionCount, errorCount, cyc, job,
                 started, prev, crashed>>

\* What the call in flight had handed to the notifier when the process
\* stopped short of completing the write that follows.
HandedBeforeStop(c) ==
  IF c.pc \in {"notify", "persist"} /\ ~c.firstRun THEN c.handed ELSE <<>>

\* The process stops while a call is in flight and is started again: memory
\* is lost, the state file stays; a write that had not completed did not
\* happen.
Crash ==
  /\ \E p \in Slots : InFlight(p)
  /\ cyc' = [p \in Slots |-> IdleCycle]
  /\ job' = [p \in Slots |-> IdleJob]
  /\ executionCount' = 0
  /\ errorCount' = 0
  /\ prev' = NoPrev
  /\ crashed' = HandedBeforeStop(cyc[1])
  /\ UNCHANGED <<config, scraper, others, page, store, started, pageChanged>>

Step(p) ==
  \/ A_Scrape(p)
  \/ A_Load(p)
  \/ A_Notify(p)
  \/ A_Persist(p)
  \/ B_Scrape(p)
  \/ B_Load(p)
  \/ B_Notify(p)
  \/ B_Persist(p)

Next ==
  \/ Call
  \/ Return
  \/ \E p \in Slots : Step(p)
  \/ PageChange
  \/ Crash

Spec == Init /\ [][Next]_vars

(***************************************************************************)
(* The application: App wires the timestamp strategy (its fifth argument,   *)
(* the message template, lands in filters), starts a cron job on            *)
(* executePollingWithRetry, and InspectionRoutes serves POST /run-once.     *)
(* A trigger runs in a free slot: scrape, runOnce, scrape.                  *)
(***************************************************************************)
\* this.filters under App: the template string, truthy.
AppFilters == [kind |-> "string"]

InitApp ==
  /\ strategy = "timestamp"
  /\ filters = AppFilters
  /\ recipients \in RecipientLists \ {<<>>}
  /\ template \in Templates
  /\ page \in Pages
  /\ store \in [lastProcessedTimestamp : {Null} \cup Timestamps, lastHash : {NoHash}]
  /\ executionCount = 0
  /\ errorCount = 0
  /\ cyc = [p \in Slots |-> IdleCycle]
  /\ job = [p \in Slots |-> IdleJob]
  /\ started = 0
  /\ prev = NoPrev
  /\ pageChanged = FALSE
  /\ crashed = <<>>
  /\ scraper = IdleScraper
  /\ hashing = IdleHashing
  /\ disk = IdleDisk
  /\ routes = IdleRoutes
  /\ seen = NotSeen
  /\ notifier = [IdleNotifier EXCEPT !.kind = "none", !.attempt = 1]

\* initializeWhatsAppGracefully, one attempt: new WhatsAppNotifier() (no
\* recipients passed) and init(), which resolves once the client is ready;
\* a failed attempt is followed by the next, the third by the mock notifier.
initializeWhatsAppGracefully ==
  /\ notifier.kind = "none"
  /\ \/ notifier' = [notifier EXCEPT !.kind = "whatsapp", !.recipients = <<>>,
                                      !.client = TRUE, !.isReady = TRUE,
                                      !.attempt = 0]
     \/ /\ notifier.attempt < InitMaxRetries
        /\ notifier' = [notifier EXCEPT !.attempt = @ + 1]
     \/ /\ notifier.attempt = InitMaxRetries
        /\ notifier' = [notifier EXCEPT !.kind = "mock"]
  /\ UNCHANGED <<config, scraper, hashing, disk, routes, seen, page, store,
                 executionCount, errorCount, cyc, job, started, prev,
                 pageChanged, crashed>>

\* The cron expression fires: the callback calls executePollingWithRetry,
\* which (attempt 1) awaits a scrape for its log.  Nothing looks at calls
\* still running.
CronTick ==
  /\ notifier.kind # "none"
  /\ started < MaxCycles
  /\ \E p \in Slots :
       /\ job[p].pc = "idle" /\ cyc[p].pc = "idle"
       /\ job' = [job EXCEPT ![p] = [pc |-> "before", kind |-> "cron", attempt |-> 1]]
  /\ UNCHANGED <<config, scraper, others, page, store, executionCount, errorCount, cyc,
                 started, prev, pageChanged, crashed>>

\* POST /run-once arrives: the handler awaits a scrape for its response.
PostRunOnce ==
  /\ notifier.kind # "none"
  /\ started < MaxCycles
  /\ \E p \in Slots :
       /\ job[p].pc = "idle" /\ cyc[p].pc = "idle"
       /\ job' = [job EXCEPT ![p] = [pc |-> "before", kind |-> "http", attempt |-> 1]]
  /\ UNCHANGED <<config, scraper, others, page, store, executionCount, errorCount, cyc,
                 started, prev, pageChanged, crashed>>

\* The catch block of the trigger: the handler answers 500; the cron job
\* returns on a WhatsApp error, sleeps and starts the next attempt while
\* attempt <= maxRetries, and gives up after that.
Caught(j, whatsApp) ==
  IF j.kind = "cron" /\ ~whatsApp /\ j.attempt <= PollingMaxRetries
    THEN [j EXCEPT !.pc = "before", !.attempt = @ + 1]
    ELSE IdleJob

\* The first scrape of the trigger settles: runOnce is called, or the error
\* is caught.
J_Before(p) ==
  /\ job[p].pc = "before"
  /\ \/ /\ Begin(p)
        /\ job' = [job EXCEPT ![p] = [@ EXCEPT !.pc = "running"]]
        /\ UNCHANGED prev
     \/ /\ job' = [job EXCEPT ![p] = Caught(@, FALSE)]
        /\ UNCHANGED <<executionCount, cyc, started, prev, crashed>>
  /\ UNCHANGED <<config, scraper, others, page, store, errorCount, pageChanged>>

\* runOnce settles: resolved, the trigger awaits its second scrape;
\* rejected, the error is caught (a delivery error may name WhatsApp).
J_Settled(p) ==
  /\ job[p].pc = "running"
  /\ End(p)
  /\ \/ /\ cyc[p].pc = "resolved"
        /\ job' = [job EXCEPT ![p] = [@ EXCEPT !.pc = "after"]]
     \/ /\ cyc[p].pc = "rejected"
        /\ \E whatsApp \in {b \in BOOLEAN : b => cyc[p].error = "notify"} :
             job' = [job EXCEPT ![p] = Caught(@, whatsApp)]
  /\ UNCHANGED <<config, scraper, others, page, store, executionCount, errorCount, started,
                 pageChanged, crashed>>

\* The second scrape settles: the trigger is done, or the error is caught.
J_After(p) ==
  /\ job[p].pc = "after"
  /\ \/ job' = [job EXCEPT ![p] = IdleJob]
     \/ job' = [job EXCEPT ![p] = Caught(@, FALSE)]
  /\ UNCHANGED <<config, scraper, others, page, store, executionCount, errorCount, cyc,
                 started, prev, pageChanged, crashed>>

NextApp ==
  \/ initializeWhatsAppGracefully
  \/ CronTick
  \/ PostRunOnce
  \/ \E p \in Slots : J_Before(p)
  \/ \E p \in Slots : J_Settled(p)
  \/ \E p \in Slots : J_After(p)
  \/ \E p \in Slots : A_Scrape(p)
  \/ \E p \in Slots : A_Load(p)
  \/ \E p \in Slots : A_Notify(p)
  \/ \E p \in Slots : A_Persist(p)

SpecApp == InitApp /\ [][NextApp]_vars

(***************************************************************************)
(* InspectionRoutes, the /filters routes.  Each handler reads or assigns    *)
(* pollAndNotifyUseCase.filters and answers without an await, so a request  *)
(* is one step; it can arrive while a runOnce call stands at an await.      *)
(* The server listens once the notifier and the use case are built.         *)
(***************************************************************************)
\* What POST /filters/activate assigns.
ActivatedFilters == [kind |-> "object", tribe |-> SiSu]
\* What POST /filters/toggle assigns when it finds filters falsy.
ToggledFilters ==
  [kind |-> "object", tribe |-> SiSu,
   coordinates |-> [x |-> [max |-> 452], y |-> [min |-> 462]]]

\* filtersActive of the responses: !!this.pollAndNotifyUseCase.filters.
filtersActive(f) == FiltersActive(f)

notFilters ==
  <<strategy, recipients, template, page, store, executionCount, errorCount,
    cyc, job, started, prev, pageChanged, crashed, scraper, hashing, disk,
    notifier, seen>>

InitRoutes ==
  /\ strategy = "timestamp"
  /\ filters = AppFilters
  /\ recipients \in RecipientLists \ {<<>>}
  /\ template \in Templates
  /\ page \in Pages
  /\ store \in [lastProcessedTimestamp : {Null} \cup Timestamps, lastHash : {NoHash}]
  /\ executionCount = 0
  /\ errorCount = 0
  /\ cyc = [p \in Slots |-> IdleCycle]
  /\ job = [p \in Slots |-> IdleJob]
  /\ started = 0
  /\ prev = NoPrev
  /\ pageChanged = FALSE
  /\ crashed = <<>>
  /\ scraper = IdleScraper
  /\ hashing = IdleHashing
  /\ disk = IdleDisk
  /\ notifier = [IdleNotifier EXCEPT !.kind = "whatsapp", !.client = TRUE,
                                     !.isReady = TRUE]
  /\ routes = IdleRoutes
  /\ seen = NotSeen

\* GET /filters/status.
GetFiltersStatus ==
  /\ routes' = [routes EXCEPT
                  !.status = IF filtersActive(filters) THEN "active"
                                                       ELSE "inactive"]
  /\ UNCHANGED <<filters, notFilters>>

\* POST /filters/activate.
PostFiltersActivate ==
  /\ filters' = ActivatedFilters
  /\ routes' = [changed |-> "activate", was |-> filtersActive(filters),
                status |-> "none"]
  /\ UNCHANGED notFilters

\* POST /filters/deactivate.
PostFiltersDeactivate ==
  /\ filters' = NoFilters
  /\ routes' = [changed |-> "deactivate", was |-> filtersActive(filters),
                status |-> "none"]
  /\ UNCHANGED notFilters

\* POST /filters/toggle: currentStatus = !!filters decides the branch.
PostFiltersToggle ==
  /\ filters' = IF filtersActive(filters) THEN NoFilters ELSE ToggledFilters
  /\ routes' = [changed |-> "toggle", was |-> filtersActive(filters),
                status |-> "none"]
  /\ UNCHANGED notFilters

NextRoutes ==
  \/ GetFiltersStatus
  \/ PostFiltersActivate
  \/ PostFiltersDeactivate
  \/ PostFiltersToggle
  \/ Call
  \/ Return
  \/ A_Scrape(1)
  \/ A_Load(1)
  \/ A_Notify(1)
  \/ A_Persist(1)

SpecRoutes == InitRoutes /\ [][NextRoutes]_vars

(***************************************************************************)
(* The timestamp strategy over consecutive pages: a caller that awaits each *)
(* runOnce, and between two calls the site replacing the page; the page     *)
(* the last scrape returned is remembered when that happens.                *)
(***************************************************************************)
InitSeries ==
  /\ strategy = "timestamp"
  /\ filters = AppFilters
  /\ recipients \in RecipientLists \ {<<>>}
  /\ template \in Templates
  /\ page \in Pages
  /\ store \in [lastProcessedTimestamp : {Null} \cup Timestamps, lastHash : {NoHash}]
  /\ executionCount = 0
  /\ errorCount = 0
  /\ cyc = [p \in Slots |-> IdleCycle]
  /\ job = [p \in Slots |-> IdleJob]
  /\ started = 0
  /\ prev = NoPrev
  /\ pageChanged = FALSE
  /\ crashed = <<>>
  /\ scraper = IdleScraper
  /\ OthersIdle

\* The site lists other conquests between two cycles.
PageTurn ==
  /\ Quiet
  /\ 0 < started /\ started < MaxCycles
  /\ page' \in Pages \ {page}
  /\ pageChanged' = TRUE
  /\ seen' = IF pageChanged THEN seen ELSE <<page>>
  /\ UNCHANGED <<config, scraper, hashing, disk, notifier, routes, store,
                 executionCount, errorCount, cyc, job, started, prev, crashed>>

NextSeries ==
  \/ Call
  \/ Return
  \/ A_Scrape(1)
  \/ A_Load(1)
  \/ A_Notify(1)
  \/ A_Persist(1)
  \/ PageTurn

SpecSeries == InitSeries /\ [][NextSeries]_vars

(***************************************************************************)
(* CheerioScraper.scrape as a call: httpClient.get is awaited, then the     *)
(* document is searched and parsed in one go.                               *)
(***************************************************************************)
cycles ==
  <<config, page, store, executionCount, errorCount, cyc, job, started, prev,
    pageChanged, crashed, others>>

InitScrape ==
  /\ strategy = "timestamp"
  /\ filters = NoFilters
  /\ recipients = <<"905550000000">>
  /\ template \in Templates
  /\ page = <<>>
  /\ store = [lastProcessedTimestamp |-> Null, lastHash |-> NoHash]
  /\ executionCount = 0
  /\ errorCount = 0
  /\ cyc = [p \in Slots |-> IdleCycle]
  /\ job = [p \in Slots |-> IdleJob]
  /\ started = 0
  /\ prev = NoPrev
  /\ pageChanged = FALSE
  /\ crashed = <<>>
  /\ \E cssSelector \in CssSelectors, tz \in TimeZones, html \in Documents :
       scraper = [IdleScraper EXCEPT !.cssSelector = cssSelector,
                                     !.tz = tz, !.html = html]
  /\ OthersIdle

\* scrape() is called: httpClient.get(url) is awaited.
S_Call ==
  /\ scraper.pc = "idle"
  /\ scraper' = [scraper EXCEPT !.pc = "get"]
  /\ UNCHANGED cycles

\* get rejects: the catch logs and rethrows.
S_GetFailed ==
  /\ scraper.pc = "get"
  /\ scraper' = [scraper EXCEPT !.pc = "threw", !.message = "get failed"]
  /\ UNCHANGED cycles

\* get resolves with the document: the rest of scrape runs to its end.
S_Got ==
  /\ scraper.pc = "get"
  /\ LET result == scrape(scraper.html, scraper.cssSelector, scraper.tz, scraper.now)
     IN scraper' = [scraper EXCEPT
                      !.pc = IF result.threw THEN "threw" ELSE "returned",
                      !.message = result.message,
                      !.selector = result.selector,
                      !.events = result.events]
  /\ UNCHANGED cycles

NextScrape == S_Call \/ S_GetFailed \/ S_Got

SpecScrape == InitScrape /\ [][NextScrape]_vars

\* The same call on documents of one row, for the row parser.
InitParse ==
  /\ strategy = "timestamp"
  /\ filters = NoFilters
  /\ recipients = <<"905550000000">>
  /\ template \in Templates
  /\ page = <<>>
  /\ store = [lastProcessedTimestamp |-> Null, lastHash |-> NoHash]
  /\ executionCount = 0
  /\ errorCount = 0
  /\ cyc = [p \in Slots |-> IdleCycle]
  /\ job = [p \in Slots |-> IdleJob]
  /\ started = 0
  /\ prev = NoPrev
  /\ pageChanged = FALSE
  /\ crashed = <<>>
  /\ \E tz \in TimeZones, html \in OneRowDocuments :
       scraper = [IdleScraper EXCEPT !.tz = tz, !.html = html]
  /\ OthersIdle

SpecParse == InitParse /\ [][NextScrape]_vars

(***************************************************************************)
(* FileStateStore on its own: calls run one at a time, each await a step,   *)
(* the process may stop between any two steps and be started again.  An     *)
(* object is a function on its keys; the text of a file is what             *)
(* JSON.stringify makes of an object, or the start of such a text.          *)
(***************************************************************************)
MaxCalls == 3

\* JSON.stringify(state, null, 2): members whose value is undefined are left
\* out.
stringify(state) ==
  <<"json", [k \in {m \in DOMAIN state : state[m] # Undefined} |-> state[k]]>>
\* What a writeFile that did not finish leaves behind.
Partial == <<"cut short">>
\* JSON.parse
Parses(data) == data # Absent /\ data[1] = "json"
parse(data) == data[2]
\* state.lastProcessedTimestamp of a parsed object
Member(state, key) == IF key \in DOMAIN state THEN state[key] ELSE Undefined
\* state.lastProcessedTimestamp = timestamp
Assign(state, key, value) ==
  [k \in DOMAIN state \cup {key} |-> IF k = key THEN value ELSE state[k]]

\* const tempPath = `${this.filePath}.tmp`
tempPath_stateFile == "file"
tempPath == "tmp"

\* clear: unlink of a path that names no file
unlinkMissing_rethrown == "rejected"
unlinkMissing == "resolved"

\* return state.lastProcessedTimestamp || null
loaded(state) ==
  LET lastProcessedTimestamp == Member(state, "lastProcessedTimestamp")
  IN IF Truthy(lastProcessedTimestamp) THEN lastProcessedTimestamp ELSE Null

\* The timestamps a caller saves.
SavedTimestamps == {tsMorning, tsTen}
\* The state file before the first call: none, one an earlier run saved
\* tsDawn to, or one that holds another member only.
FilesFound ==
  {[file |-> Absent, register |-> Null],
   [file |-> stringify([k \in {"lastProcessedTimestamp"} |-> tsDawn]),
    register |-> tsDawn],
   [file |-> stringify([k \in {"lastHash"} |-> <<"0", "a", "1", "b">>]),
    register |-> Null]}

notDisk ==
  <<config, page, store, executionCount, errorCount, cyc, job, started, prev,
    pageChanged, crashed, scraper, hashing, notifier, routes,
    seen>>

InitStore ==
  /\ strategy = "timestamp"
  /\ filters = NoFilters
  /\ recipients = <<"905550000000">>
  /\ template \in Templates
  /\ page = <<>>
  /\ store = [lastProcessedTimestamp |-> Null, lastHash |-> NoHash]
  /\ executionCount = 0
  /\ errorCount = 0
  /\ cyc = [p \in Slots |-> IdleCycle]
  /\ job = [p \in Slots |-> IdleJob]
  /\ started = 0
  /\ prev = NoPrev
  /\ pageChanged = FALSE
  /\ crashed = <<>>
  /\ scraper = IdleScraper
  /\ routes = IdleRoutes
  /\ seen = NotSeen
  /\ hashing = IdleHashing
  /\ notifier = IdleNotifier
  /\ \E found \in FilesFound :
       disk = [IdleDisk EXCEPT !.file = found.file, !.before = found.file,
                               !.register = found.register]

\* A caller calls loadLastProcessedTimestamp, saveLastProcessedTimestamp or
\* clear.
F_Call ==
  /\ disk.pc = "idle"
  /\ disk.calls < MaxCalls
  /\ \E call \in {[op |-> "load", arg |-> Null, pc |-> "readFile"],
                  [op |-> "clear", arg |-> Null, pc |-> "unlink"]}
                   \cup {[op |-> "save", arg |-> t, pc |-> "mkdir"] :
                           t \in SavedTimestamps} :
       disk' = [disk EXCEPT !.op = call.op, !.arg = call.arg, !.pc = call.pc,
                            !.state = <<>>, !.result = Undefined,
                            !.before = disk.file, !.failed = FALSE,
                            !.calls = @ + 1]
  /\ UNCHANGED notDisk

\* load: readFile and JSON.parse; ENOENT gives null, any other error is
\* thrown.
F_Load ==
  /\ disk.pc = "readFile"
  /\ disk' = IF disk.file = Absent
               THEN [disk EXCEPT !.pc = "resolved", !.result = Null]
             ELSE IF Parses(disk.file)
               THEN [disk EXCEPT !.pc = "resolved",
                                 !.result = loaded(parse(disk.file))]
             ELSE [disk EXCEPT !.pc = "rejected"]
  /\ UNCHANGED notDisk

\* save: await fs.mkdir(dir, { recursive: true })
F_Mkdir ==
  /\ disk.pc = "mkdir"
  /\ disk' = [disk EXCEPT !.pc = "readExisting"]
  /\ UNCHANGED notDisk

\* save: read existing state or create new, then state.lastProcessedTimestamp
\* = timestamp.
F_ReadExisting ==
  /\ disk.pc = "readExisting"
  /\ disk' = IF disk.file = Absent
               THEN [disk EXCEPT
                       !.pc = "writeFile",
                       !.state = Assign(<<>>, "lastProcessedTimestamp", disk.arg)]
             ELSE IF Parses(disk.file)
               THEN [disk EXCEPT
                       !.pc = "writeFile",
                       !.state = Assign(parse(disk.file),
                                        "lastProcessedTimestamp", disk.arg)]
             ELSE [disk EXCEPT !.pc = "rejected"]
  /\ UNCHANGED notDisk

\* save: fs.writeFile(tempPath, ...) opens and truncates the file ...
F_WriteFileOpen ==
  /\ disk.pc = "writeFile"
  /\ disk' = [disk EXCEPT !.pc = "writing", ![tempPath] = Partial]
  /\ UNCHANGED notDisk

\* ... and writes the text to its end.
F_WriteFileEnd ==
  /\ disk.pc = "writing"
  /\ disk' = [disk EXCEPT !.pc = "rename", ![tempPath] = stringify(disk.state)]
  /\ UNCHANGED notDisk

\* save: fs.rename(tempPath, this.filePath) replaces the state file in one
\* step; a tempPath that names no file is an error.
F_Rename ==
  /\ disk.pc = "rename"
  /\ disk' = IF disk.tmp = Absent
               THEN [disk EXCEPT !.pc = "rejected"]
             ELSE [disk EXCEPT !.pc = "resolved", !.file = disk.tmp,
                               !.tmp = Absent, !.register = disk.arg]
  /\ UNCHANGED notDisk

\* clear: fs.unlink(this.filePath); ENOENT is swallowed.
F_Unlink ==
  /\ disk.pc = "unlink"
  /\ disk' = IF disk.file = Absent
               THEN [disk EXCEPT !.pc = unlinkMissing]
             ELSE [disk EXCEPT !.pc = "resolved", !.file = Absent,
                               !.register = Null]
  /\ UNCHANGED notDisk

\* An await rejects with an input/output error: the call rethrows it.  A
\* writeFile that fails leaves what it had written.
F_Fail ==
  /\ disk.pc \in {"readFile", "mkdir", "readExisting", "writeFile", "writing",
                  "rename", "unlink"}
  /\ disk' = [disk EXCEPT !.pc = "rejected", !.failed = TRUE]
  /\ UNCHANGED notDisk

\* The call's promise settles and the caller goes on.
F_Return ==
  /\ disk.pc \in {"resolved", "rejected"}
  /\ disk' = [disk EXCEPT !.pc = "idle"]
  /\ UNCHANGED notDisk

\* The process stops between two steps of a call and is started again: the
\* files stay as they are.
F_Crash ==
  /\ disk.pc \in {"readFile", "mkdir", "readExisting", "writeFile", "writing",
                  "rename", "unlink"}
  /\ disk.crashes < 1
  /\ disk' = [disk EXCEPT !.pc = "idle", !.crashes = @ + 1]
  /\ UNCHANGED notDisk

NextStore ==
  \/ F_Call
  \/ F_Load
  \/ F_Mkdir
  \/ F_ReadExisting
  \/ F_WriteFileOpen
  \/ F_WriteFileEnd
  \/ F_Rename
  \/ F_Unlink
  \/ F_Fail
  \/ F_Return
  \/ F_Crash

SpecStore == InitStore /\ [][NextStore]_vars

(***************************************************************************)
(* Two saveLastProcessedTimestamp calls on one FileStateStore, as two       *)
(* overlapping cycles make them: each call is suspended at its awaits and   *)
(* the other runs in between.  Both use the same tempPath.  A call writes   *)
(* through the descriptor writeFile opened, which follows the file when a   *)
(* rename gives it another name.  No input/output error is injected.        *)
(***************************************************************************)
Savers == {1, 2}
\* A call not made yet; fd is the name the file open for writing goes by.
IdleSave == [pc |-> "idle", arg |-> Null, state |-> <<>>, fd |-> "none"]

\* fs.rename(tempPath, filePath) with no file at tempPath.
renameMissing == "rejected"

InitSaves ==
  /\ strategy = "timestamp"
  /\ filters = AppFilters
  /\ recipients = <<"905550000000">>
  /\ template \in Templates
  /\ page = <<>>
  /\ store = [lastProcessedTimestamp |-> Null, lastHash |-> NoHash]
  /\ executionCount = 0
  /\ errorCount = 0
  /\ cyc = [p \in Slots |-> IdleCycle]
  /\ job = [p \in Slots |-> IdleJob]
  /\ started = 0
  /\ prev = NoPrev
  /\ pageChanged = FALSE
  /\ crashed = <<>>
  /\ scraper = IdleScraper
  /\ routes = IdleRoutes
  /\ seen = NotSeen
  /\ hashing = IdleHashing
  /\ notifier = IdleNotifier
  /\ \E found \in FilesFound :
       disk = [IdleDisk EXCEPT !.file = found.file, !.before = found.file,
                               !.register = found.register,
                               !.saves = [s \in Savers |-> IdleSave]]

\* saveLastProcessedTimestamp(timestamp) is called: fs.mkdir is awaited.
Save_Call(s) ==
  /\ disk.saves[s].pc = "idle"
  /\ \E timestamp \in SavedTimestamps :
       disk' = [disk EXCEPT !.saves[s] =
                  [IdleSave EXCEPT !.pc = "mkdir", !.arg = timestamp]]
  /\ UNCHANGED notDisk

Save_Mkdir(s) ==
  /\ disk.saves[s].pc = "mkdir"
  /\ disk' = [disk EXCEPT !.saves[s].pc = "readExisting"]
  /\ UNCHANGED notDisk

\* readFile and JSON.parse of the state file as it is now (ENOENT: {}),
\* then state.lastProcessedTimestamp = timestamp.
Save_ReadExisting(s) ==
  /\ disk.saves[s].pc = "readExisting"
  /\ disk' = IF disk.file = Absent
               THEN [disk EXCEPT
                       !.saves[s].pc = "writeFile",
                       !.saves[s].state =
                          Assign(<<>>, "lastProcessedTimestamp", disk.saves[s].arg)]
             ELSE IF Parses(disk.file)
               THEN [disk EXCEPT
                       !.saves[s].pc = "writeFile",
                       !.saves[s].state =
                          Assign(parse(disk.file), "lastProcessedTimestamp",
                                 disk.saves[s].arg)]
             ELSE [disk EXCEPT !.saves[s].pc = "rejected"]
  /\ UNCHANGED notDisk

\* fs.writeFile(tempPath, ...) opens the file, creating or truncating it.
Save_WriteFileOpen(s) ==
  /\ disk.saves[s].pc = "writeFile"
  /\ disk' = [disk EXCEPT !.saves[s].pc = "writing",
                          !.saves[s].fd = tempPath,
                          ![tempPath] = Partial]
  /\ UNCHANGED notDisk

\* The text is written through the descriptor and the file is closed.
Save_WriteFileEnd(s) ==
  /\ disk.saves[s].pc = "writing"
  /\ disk' = [disk EXCEPT !.saves[s].pc = "rename",
                          !.saves[s].fd = "none",
                          ![disk.saves[s].fd] = stringify(disk.saves[s].state)]
  /\ UNCHANGED notDisk

\* fs.rename(tempPath, filePath): the file at tempPath takes the place of
\* the state file (a descriptor open on it now writes to the state file);
\* ENOENT when the other call has renamed it already.
Save_Rename(s) ==
  /\ disk.saves[s].pc = "rename"
  /\ disk' = IF disk.tmp = Absent
               THEN [disk EXCEPT !.saves[s].pc = renameMissing]
             ELSE [disk EXCEPT
                     !.file = disk.tmp, !.tmp = Absent,
                     !.register = disk.saves[s].arg,
                     !.saves = [u \in Savers |->
                        IF u = s THEN [disk.saves[u] EXCEPT !.pc = "resolved"]
                        ELSE IF disk.saves[u].fd = tempPath
                          THEN [disk.saves[u] EXCEPT !.fd = "file"]
                        ELSE disk.saves[u]]]
  /\ UNCHANGED notDisk

NextSaves ==
  \/ \E s \in Savers : Save_Call(s)
  \/ \E s \in Savers : Save_Mkdir(s)
  \/ \E s \in Savers : Save_ReadExisting(s)
  \/ \E s \in Savers : Save_WriteFileOpen(s)
  \/ \E s \in Savers : Save_WriteFileEnd(s)
  \/ \E s \in Savers : Save_Rename(s)

SpecSaves == InitSaves /\ [][NextSaves]_vars

(***************************************************************************)
(* WhatsAppNotifier.notifyMany on its own: one call, its sends settling in  *)
(* any order, the connection coming and going meanwhile.                    *)
(***************************************************************************)
MaxNumbers == 2

PhoneNumbers == {"905550000000", "905550000001"}
\* The numbers argument: a list, or none.
NumberLists == {Null} \cup UNION {[1..n -> PhoneNumbers] : n \in 0..MaxNumbers}

\* const chatId = `${phoneNumber}@c.us`
chatId(phoneNumber) == <<phoneNumber, "@c.us">>

\* The end of notifyMany once every send has settled: the failures are
\* counted and logged.
completed_strict(failed) == IF failed > 0 THEN "rejected" ELSE "resolved"
completed(failed) == "resolved"

notNotifier ==
  <<config, page, store, executionCount, errorCount, cyc, job, started, prev,
    pageChanged, crashed, scraper, hashing, disk, routes,
    seen>>

InitNotifier ==
  /\ strategy = "hash"
  /\ filters = NoFilters
  /\ recipients = <<"905550000000">>
  /\ template \in Templates
  /\ page = <<>>
  /\ store = [lastProcessedTimestamp |-> Null, lastHash |-> NoHash]
  /\ executionCount = 0
  /\ errorCount = 0
  /\ cyc = [p \in Slots |-> IdleCycle]
  /\ job = [p \in Slots |-> IdleJob]
  /\ started = 0
  /\ prev = NoPrev
  /\ pageChanged = FALSE
  /\ crashed = <<>>
  /\ scraper = IdleScraper
  /\ hashing = IdleHashing
  /\ disk = IdleDisk
  /\ routes = IdleRoutes
  /\ seen = NotSeen
  /\ \E client \in BOOLEAN, isReady \in BOOLEAN, numbers \in NumberLists :
       /\ isReady => client
       /\ notifier = [IdleNotifier EXCEPT !.client = client,
                                          !.isReady = isReady,
                                          !.numbers = numbers]

\* notifyMany(numbers, message) is called and runs to its first await: it
\* throws without a ready client, returns without numbers, and otherwise
\* calls client.sendMessage once for each number of the list.
N_Call ==
  /\ notifier.pc = "idle"
  /\ notifier' =
       LET called == [notifier EXCEPT
                        !.at = [client |-> notifier.client,
                                isReady |-> notifier.isReady]]
           numbers == notifier.numbers
       IN IF ~notifier.client \/ ~notifier.isReady
            THEN [called EXCEPT !.pc = "rejected"]
          ELSE IF numbers = Null \/ Len(numbers) = 0
            THEN [called EXCEPT !.pc = "resolved"]
          ELSE [called EXCEPT
                  !.pc = "allSettled",
                  !.sends = [i \in 1..Len(numbers) |->
                               [chatId |-> chatId(numbers[i]),
                                status |-> "pending"]]]
  /\ UNCHANGED notNotifier

\* One sendMessage settles: sent, or failed (caught and logged).
N_Sent ==
  /\ notifier.pc = "allSettled"
  /\ \E i \in DOMAIN notifier.sends, status \in {"sent", "failed"} :
       /\ notifier.sends[i].status = "pending"
       /\ notifier' = [notifier EXCEPT !.sends[i].status = status]
  /\ UNCHANGED notNotifier

\* Promise.allSettled resolves: the summary is logged and the call ends.
N_Completed ==
  /\ notifier.pc = "allSettled"
  /\ \A i \in DOMAIN notifier.sends : notifier.sends[i].status # "pending"
  /\ notifier' =
       [notifier EXCEPT
          !.pc = completed(Cardinality({i \in DOMAIN notifier.sends :
                                          notifier.sends[i].status = "failed"}))]
  /\ UNCHANGED notNotifier

\* The 'ready', 'disconnected' and 'auth_failure' events of the client.
N_Ready ==
  /\ notifier.client
  /\ notifier' = [notifier EXCEPT !.isReady = ~@]
  /\ UNCHANGED notNotifier

NextNotifier == N_Call \/ N_Sent \/ N_Completed \/ N_Ready

SpecNotifier == InitNotifier /\ [][NextNotifier]_vars

(***************************************************************************)
(* WhatsAppNotifier.init on its own: calls arriving at any time (App at     *)
(* start, GET /qr), each running to its first await in one step.            *)
(***************************************************************************)
MaxInits == 4

\* if (this.isInitializing) return this.initPromise;
alreadyInitializing_never(n) == FALSE
alreadyInitializing(n) == n.isInitializing

InitInit ==
  /\ strategy = "timestamp"
  /\ filters = AppFilters
  /\ recipients = <<"905550000000">>
  /\ template \in Templates
  /\ page = <<>>
  /\ store = [lastProcessedTimestamp |-> Null, lastHash |-> NoHash]
  /\ executionCount = 0
  /\ errorCount = 0
  /\ cyc = [p \in Slots |-> IdleCycle]
  /\ job = [p \in Slots |-> IdleJob]
  /\ started = 0
  /\ prev = NoPrev
  /\ pageChanged = FALSE
  /\ crashed = <<>>
  /\ scraper = IdleScraper
  /\ hashing = IdleHashing
  /\ disk = IdleDisk
  /\ routes = IdleRoutes
  /\ seen = NotSeen
  /\ notifier = [IdleNotifier EXCEPT !.kind = "whatsapp"]

\* init() is called.  During an initialization the caller is handed the
\* promise in flight; with a ready client it returns; otherwise it sets
\* isInitializing and starts _performInit, which creates the Client, sets
\* the handlers up and awaits client.initialize().
I_Call ==
  /\ notifier.inits < MaxInits
  /\ notifier' =
       LET called == [notifier EXCEPT
                        !.inits = @ + 1,
                        !.last = [ready |-> notifier.isReady /\ notifier.client,
                                  created |-> FALSE]]
       IN IF alreadyInitializing(notifier)
            THEN [called EXCEPT
                    !.waiting = IF notifier.initPromise = "pending"
                                  THEN @ + 1 ELSE @]
          ELSE IF notifier.isReady /\ notifier.client
            THEN called
          ELSE [called EXCEPT !.isInitializing = TRUE,
                              !.initPromise = "pending",
                              !.performing = @ + 1,
                              !.client = TRUE,
                              !.clients = @ + 1,
                              !.last.created = TRUE]
  /\ UNCHANGED notNotifier

\* client.initialize() resolves: _performInit returns, the promise
\* resolves, the finally of the init() that started it clears
\* isInitializing, and the callers that waited go on.
I_Initialized ==
  /\ notifier.performing > 0
  /\ notifier' = [notifier EXCEPT !.performing = @ - 1,
                                  !.initPromise = "resolved",
                                  !.isInitializing = FALSE,
                                  !.waiting = 0]
  /\ UNCHANGED notNotifier

\* client.initialize() rejects: the catch of _performInit awaits _cleanup().
I_Failed ==
  /\ notifier.performing > 0
  /\ notifier' = [notifier EXCEPT !.performing = @ - 1, !.cleaning = @ + 1]
  /\ UNCHANGED notNotifier

\* _cleanup() is done (client destroyed and null, isReady false):
\* _performInit throws, the promise rejects, the finally of the init() that
\* started it clears isInitializing, and the callers that waited go on.
I_CleanedUp ==
  /\ notifier.cleaning > 0
  /\ notifier' = [notifier EXCEPT !.cleaning = @ - 1,
                                  !.client = FALSE,
                                  !.isReady = FALSE,
                                  !.initPromise = "rejected",
                                  !.isInitializing = FALSE,
                                  !.waiting = 0]
  /\ UNCHANGED notNotifier

NextInit == I_Call \/ I_Initialized \/ I_Failed \/ I_CleanedUp \/ N_Ready

SpecInit == InitInit /\ [][NextInit]_vars

(***************************************************************************)
(* The hashing of the hash strategy on its own: the list one cycle filtered *)
(* and the list the next cycle filtered, each signed and hashed as runOnce  *)
(* does, the second hash compared with the first as the stored one.         *)
(***************************************************************************)
MaxSigned == 2

\* evLoss as the site would list it after the village was renamed, grew and
\* its players changed their names.
evRenamed ==
  [evLoss EXCEPT !.villageName = "Renamed", !.points = 250,
                 !.oldPlayer = "Former", !.newPlayer = "Latter"]
\* evIso with an empty tribe text in place of null.
evIsoEmpty == [evIso EXCEPT !.oldTribe = <<>>]
\* evLoss one field to the east.
evMoved == [evLoss EXCEPT !.x = 451]
SignedRecords == {evLoss, evRenamed, evMoved, evIso, evIsoEmpty}
SignedLists == UNION {[1..n -> SignedRecords] : n \in 0..MaxSigned}

rest ==
  <<config, page, store, executionCount, errorCount, cyc, job, started, prev,
    pageChanged, crashed, scraper, disk, notifier, routes,
    seen>>

InitHashing ==
  /\ strategy = "hash"
  /\ filters = NoFilters
  /\ recipients = <<"905550000000">>
  /\ template \in Templates
  /\ page = <<>>
  /\ store = [lastProcessedTimestamp |-> Null, lastHash |-> NoHash]
  /\ executionCount = 0
  /\ errorCount = 0
  /\ cyc = [p \in Slots |-> IdleCycle]
  /\ job = [p \in Slots |-> IdleJob]
  /\ started = 0
  /\ prev = NoPrev
  /\ pageChanged = FALSE
  /\ crashed = <<>>
  /\ scraper = IdleScraper
  /\ \E events \in SignedLists, other \in SignedLists :
       hashing = [IdleHashing EXCEPT !.events = events, !.other = other]
  /\ disk = IdleDisk
  /\ routes = IdleRoutes
  /\ seen = NotSeen
  /\ notifier = IdleNotifier

\* The first cycle signs and hashes its list; the hash is stored.
H_First ==
  /\ hashing.pc = "idle"
  /\ hashing' = [hashing EXCEPT
                   !.pc = "stored",
                   !.lastHash = hashSignature(buildSignature(hashing.events))]
  /\ UNCHANGED rest

\* The next cycle signs and hashes its list and compares with the stored hash.
H_Next ==
  /\ hashing.pc = "stored"
  /\ LET newHash == hashSignature(buildSignature(hashing.other))
     IN hashing' = [hashing EXCEPT
                      !.pc = "compared",
                      !.newHash = newHash,
                      !.unchanged = hashUnchanged(hashing.lastHash, newHash)]
  /\ UNCHANGED rest

NextHashing == H_First \/ H_Next

SpecHashing == InitHashing /\ [][NextHashing]_vars

(***************************************************************************)
(* Properties.  A cycle is what one runOnce call does; the caller of Spec   *)
(* awaits each call, so the call in slot 1 is the only one.                 *)
(***************************************************************************)
Cycle == cyc[1]
\* The cycle got past detection (cursor loaded, new events selected).
Detected(c) == c.loaded # <<>> /\ ~c.firstRun /\ c.pc \in {"notify", "persist", "resolved"}
\* The minute a timestamp text names.
MinuteOf(text) == ClockOf(text).minute
\* The most recent records of a page, by the minute their timestamps name.
MostRecent(events) ==
  {i \in DOMAIN events :
     \A j \in DOMAIN events : MinuteOf(events[i].timestamp) >= MinuteOf(events[j].timestamp)}

\* C1.  Bootstrap of the timestamp strategy: a cycle that finds no persisted
\* cursor and a non-empty page never calls the notifier; the only cursor it
\* saves, and the cursor in the store when it resolves, is the timestamp of
\* the most recent record of the page.
C1_Bootstrap ==
  (strategy = "timestamp" /\ Cycle.loaded # <<>> /\ ~Truthy(Cycle.loaded[1])
     /\ Cycle.allEvents # <<>>)
  => /\ Cycle.handed = <<>>
     /\ Cycle.notified = "no"
     /\ Cycle.pc \in {"persist", "resolved", "rejected"}
     /\ Cycle.saveCalls = 1
     /\ \E i \in MostRecent(Cycle.allEvents) :
          Cycle.saved = <<Cycle.allEvents[i].timestamp>>
     /\ Cycle.pc = "resolved" =>
          /\ Cycle.writes = 1
          /\ store.lastProcessedTimestamp = Cycle.saved[1]

\* A bootstrap cycle over a page of two records of different times resolved.
C1_Witness ==
  /\ strategy = "timestamp"
  /\ Cycle.pc = "resolved"
  /\ Cycle.loaded = <<Null>>
  /\ Len(Cycle.allEvents) = 2
  /\ MinuteOf(Cycle.allEvents[1].timestamp) > MinuteOf(Cycle.allEvents[2].timestamp)
  /\ store.lastProcessedTimestamp = Cycle.allEvents[1].timestamp

\* C2.  Idempotence of the timestamp strategy: when a runOnce call has
\* resolved and the next call scrapes the same unchanged page, the two calls
\* together complete at most one cursor write, the second issues none, and
\* the second hands no message to the notifier; whatever the filters and the
\* cursor the first call started from.
C2_Idempotent ==
  (strategy = "timestamp" /\ prev.ended = "resolved" /\ Cycle.pc # "idle"
     /\ Cycle.samePage)
  => /\ prev.writes + Cycle.writes <= 1
     /\ Cycle.saveCalls = 0
     /\ Cycle.handed = <<>>

\* A second call resolved over the page from which the first call had
\* written the cursor, with a record on it.
C2_Witness ==
  /\ strategy = "timestamp"
  /\ prev.ended = "resolved" /\ prev.writes = 1
  /\ Cycle.pc = "resolved" /\ Cycle.samePage
  /\ Cycle.loaded # <<>> /\ Truthy(Cycle.loaded[1])
  /\ Cycle.allEvents # <<>>

\* The hash of the filtered page, from the page itself.
HashOfPage(events) == hashSignature(buildSignature(filterEvents(events, filters).events))

\* C3.  Hash strategy, unchanged key: a cycle whose filtered page hashes to
\* the persisted hash resolves at once: notifyMany is not called and
\* saveLastHash is not called.
C3_UnchangedHash ==
  (strategy = "hash" /\ Cycle.loaded # <<>> /\ Cycle.loaded[1] = HashOfPage(Cycle.allEvents))
  => /\ Cycle.pc = "resolved"
     /\ Cycle.handed = <<>>
     /\ Cycle.notified = "no"
     /\ Cycle.saveCalls = 0
     /\ Cycle.writes = 0
     /\ store.lastHash = Cycle.loaded[1]

\* A cycle found the persisted hash equal to the hash of its filtered page.
C3_Witness ==
  /\ strategy = "hash"
  /\ Cycle.pc = "resolved"
  /\ Cycle.filteredEvents # <<>>
  /\ Cycle.loaded = <<Cycle.newHash>>
  /\ Cycle.loaded[1] = HashOfPage(Cycle.allEvents)

\* The hash strategy found a non-empty filtered page whose hash differs from
\* the persisted one (or none is persisted).
ChangedKey(c) ==
  /\ strategy = "hash"
  /\ c.loaded # <<>>
  /\ c.filteredEvents # <<>>
  /\ c.loaded[1] # HashOfPage(c.allEvents)

\* What was handed to notifyMany names every record of the list, in order.
RenderedFrom(message, events) ==
  /\ Len(message.blocks) = Len(events)
  /\ \A i \in DOMAIN events :
       /\ message.blocks[i].timestamp = events[i].timestamp
       /\ message.blocks[i].villageName = events[i].villageName
       /\ message.blocks[i].coordinates =
            NumToStr(events[i].x) \o <<"|">> \o NumToStr(events[i].y)

\* The records of the page the wired filter selects, from the page itself.
MatchingOfPage(events) == filterEvents(events, filters).events

\* C4 as the specification states it: every changed-key cycle that gets to
\* the save has called notifyMany.
C4_AsStated ==
  (ChangedKey(Cycle) /\ Cycle.pc \in {"persist", "resolved"})
  => Cycle.handed # <<>>

\* C4.  Hash strategy, changed key: unless the notify operation finds the
\* notifier not ready or the recipient list empty (then it is skipped),
\* notifyMany is called with the configured recipients and a message
\* rendered from the whole filtered page; saveLastHash is called only after
\* that, with the new hash; and when the cycle resolves the new hash is the
\* persisted one, so the next cycle over the same page calls neither.
C4_ChangedHash ==
  /\ ChangedKey(Cycle) =>
       /\ Cycle.pc \in {"notify", "persist", "resolved", "rejected"}
       /\ Cycle.notified # "skipped" =>
            /\ Cycle.handed # <<>>
            /\ Cycle.handed[1].recipients = recipients
            /\ recipients # <<>>
            /\ RenderedFrom(Cycle.handed[1].message, MatchingOfPage(Cycle.allEvents))
       /\ Cycle.saveCalls > 0 =>
            /\ Cycle.notified \in {"sent", "skipped"}
            /\ Cycle.saved = <<HashOfPage(Cycle.allEvents)>>
       /\ Cycle.pc = "resolved" =>
            /\ Cycle.writes = 1
            /\ store.lastHash = HashOfPage(Cycle.allEvents)
  /\ (strategy = "hash" /\ prev.ended = "resolved" /\ prev.writes = 1
        /\ Cycle.pc # "idle" /\ Cycle.samePage)
       => Cycle.handed = <<>> /\ Cycle.saveCalls = 0

\* A changed-key cycle with two matching records notified and saved, and the
\* next cycle over the same page resolved.
C4_Witness ==
  /\ strategy = "hash"
  /\ prev.ended = "resolved" /\ prev.writes = 1
  /\ Cycle.pc = "resolved" /\ Cycle.samePage
  /\ Len(Cycle.filteredEvents) = 2
  /\ Cycle.loaded = <<Cycle.newHash>>

\* A changed-key cycle with two matching records has called notifyMany and
\* saved the hash.
C4_WitnessNotified ==
  /\ ChangedKey(Cycle)
  /\ Cycle.pc = "resolved"
  /\ Cycle.notified = "sent"
  /\ Len(Cycle.filteredEvents) = 2

\* The key persisted when the cycle started: what it loaded, or (a cycle
\* that ended before loading has not written) what the store holds.
KeyAtStart(c) ==
  IF c.loaded # <<>> THEN c.loaded[1]
  ELSE IF strategy = "timestamp" THEN store.lastProcessedTimestamp
  ELSE store.lastHash

\* The comparison key advanced, as the specification defines it.
KeyAdvancedAsStated(c) ==
  \/ /\ strategy = "timestamp"
     /\ ~Truthy(KeyAtStart(c)) \/ c.newEvents # <<>>
  \/ /\ strategy = "hash"
     /\ KeyAtStart(c) # HashOfPage(c.allEvents)

\* C5 as the specification states it: a cycle that resolves has called save
\* exactly when the key advanced (no cursor, or a record newer than the
\* cursor; a hash other than the persisted one).
C5_AsStated ==
  Cycle.pc = "resolved" => (Cycle.saveCalls > 0 <=> KeyAdvancedAsStated(Cycle))

\* The key advanced and there is something to persist.
KeyAdvanced(c) ==
  \/ /\ strategy = "timestamp"
     /\ c.allEvents # <<>>
     /\ ~Truthy(KeyAtStart(c)) \/ c.newEvents # <<>>
  \/ /\ strategy = "hash"
     /\ MatchingOfPage(c.allEvents) # <<>>
     /\ KeyAtStart(c) # HashOfPage(c.allEvents)

\* C5.  In both strategies a cycle that resolves has called the store's save
\* exactly when the page (timestamp strategy) or the filtered page (hash
\* strategy) is not empty and the key advanced: no cursor was persisted or a
\* record is new against it; the hash differs from the persisted one.
C5_SaveIffAdvanced ==
  Cycle.pc = "resolved" => (Cycle.saveCalls > 0 <=> KeyAdvanced(Cycle))

\* Both directions, in both strategies: a resolved cycle that saved, and one
\* that did not although a cursor (a hash) was persisted and the page was
\* not empty.
C5_Witness ==
  /\ Cycle.pc = "resolved"
  /\ Cycle.saveCalls > 0
  /\ KeyAdvanced(Cycle)
  /\ strategy = "timestamp" => ~Cycle.firstRun /\ Cycle.filteredEvents = <<>>
C5_WitnessNoSave ==
  /\ Cycle.pc = "resolved"
  /\ Cycle.saveCalls = 0
  /\ Cycle.loaded # <<>>
  /\ Cycle.allEvents # <<>>

\* The cycle follows a stop between the notifier call and the completed
\* write, scraped the page of the stopped cycle, and got to its own write.
AfterStop(c) ==
  c.afterCrash # <<>> /\ c.samePage /\ c.pc \in {"persist", "resolved"}

\* C6 as the specification states it: the cycle after such a stop hands the
\* same message to the notifier again, in either strategy.
C6_AsStated == AfterStop(Cycle) => Cycle.handed = Cycle.afterCrash

\* C6.  In either strategy the cursor (hash) write is issued only after the
\* notification step has finished, and nothing is written while the notifier
\* call is pending; after a stop between the notifier call and the completed
\* write, the next cycle on the same page hands the same message to the
\* notifier again, unless it finds the notifier not ready and skips the
\* call (hash strategy).
C6_AtLeastOnce ==
  /\ Cycle.pc = "notify" =>
       /\ Cycle.saveCalls = 0
       /\ IF strategy = "timestamp"
            THEN store.lastProcessedTimestamp = Cycle.loaded[1]
            ELSE store.lastHash = Cycle.loaded[1]
  /\ (Cycle.saveCalls > 0 /\ ~Cycle.firstRun /\ Cycle.filteredEvents # <<>>) =>
       Cycle.notified \in {"sent", "notReady", "skipped"}
  /\ (AfterStop(Cycle) /\ Cycle.notified # "skipped") =>
       Cycle.handed = Cycle.afterCrash

\* The cycle after a stop sent the message of the stopped cycle again and
\* resolved.
C6_Witness ==
  /\ Cycle.afterCrash # <<>>
  /\ Cycle.samePage
  /\ Cycle.pc = "resolved"
  /\ Cycle.notified = "sent"
  /\ Cycle.handed = Cycle.afterCrash

\* The timestamp names an instant later than the cursor's: both spell a full
\* date and time, and the record's is the later one.
LaterInstant(timestamp, cursor) ==
  /\ ClockOf(timestamp).form = "site"
  /\ ClockOf(cursor).form = "site"
  /\ MinuteOf(timestamp) > MinuteOf(cursor)

\* C8.  Newness in the timestamp strategy: whenever findNewEvents returns,
\* the records it calls new are exactly those whose timestamp names an
\* instant strictly later than the cursor's, in page order; a record at the
\* cursor's instant is not new, however the two texts compare as strings.
C8_Newness ==
  (strategy = "timestamp" /\ Detected(Cycle))
  => Cycle.newEvents =
       SelectSeq(Cycle.allEvents, LAMBDA e : LaterInstant(e.timestamp, Cycle.loaded[1]))

\* The record at the cursor's instant was not called new, the later record
\* above it was.
C8_Witness ==
  /\ strategy = "timestamp"
  /\ Detected(Cycle)
  /\ Cycle.loaded = <<tsMorning>>
  /\ Cycle.allEvents = <<evLower, evLoss>>
  /\ Cycle.newEvents = <<evLower>>

\* A record at the cursor's instant, written differently, was not new.
C8_WitnessEqual ==
  /\ strategy = "timestamp"
  /\ Detected(Cycle)
  /\ Cycle.loaded = <<tsTen>>
  /\ Cycle.allEvents = <<evLower>>
  /\ StrLess(tsTen, evLower.timestamp)
  /\ Cycle.newEvents = <<>>

\* C9.  Cursor advance of the timestamp strategy: a cycle that loaded a
\* cursor and found new records saves the timestamp of the most recent new
\* record, matching or not, and that is the cursor when it resolves; the
\* next cycle over the same page finds no record new.
C9_CursorAdvance ==
  /\ (strategy = "timestamp" /\ Detected(Cycle) /\ Cycle.newEvents # <<>>) =>
       /\ Cycle.saveCalls > 0 =>
            \E i \in MostRecent(Cycle.newEvents) :
              Cycle.saved = <<Cycle.newEvents[i].timestamp>>
       /\ Cycle.pc = "resolved" =>
            /\ Cycle.saveCalls = 1 /\ Cycle.writes = 1
            /\ store.lastProcessedTimestamp = Cycle.saved[1]
  /\ (strategy = "timestamp" /\ prev.ended = "resolved" /\ prev.writes = 1
        /\ Cycle.samePage /\ Detected(Cycle)) =>
       Cycle.newEvents = <<>>

\* A cycle resolved whose most recent new record did not pass the filter
\* while an older new record did: the cursor is the former's timestamp.
C9_Witness ==
  /\ strategy = "timestamp"
  /\ Cycle.pc = "resolved"
  /\ Len(Cycle.newEvents) = 2
  /\ Cycle.filteredEvents = <<Cycle.newEvents[2]>>
  /\ MinuteOf(Cycle.newEvents[1].timestamp) > MinuteOf(Cycle.newEvents[2].timestamp)
  /\ store.lastProcessedTimestamp = Cycle.newEvents[1].timestamp

\* The filter as the README states it: either tribe, trimmed, is the clan
\* name whatever the case, and x < 452 and y > 462.
StatedMatch(e) ==
  LET isClan(tribe) == Truthy(tribe) /\ ToLowerCase(Trim(tribe)) = ToLowerCase(SiSu)
  IN (isClan(e.oldTribe) \/ isClan(e.newTribe)) /\ e.x < XMax /\ e.y > YMin

\* The records a handed message names: timestamp and coordinates per block.
Named(handed) ==
  IF handed = <<>> THEN <<>>
  ELSE [i \in DOMAIN handed[1].blocks |->
          <<handed[1].blocks[i].timestamp, handed[1].blocks[i].coordinates>>]
NamesOf(events) ==
  [i \in DOMAIN events |->
     <<events[i].timestamp, NumToStr(events[i].x) \o <<"|">> \o NumToStr(events[i].y)>>]

\* C10 as the specification states it: with filtering enabled, the records
\* handed to the notifier are exactly the new records that match the stated
\* filter (clan trimmed and case-insensitive, x < xMax, y > yMin).
C10_AsStated ==
  (strategy = "timestamp" /\ FiltersActive(filters) /\ Detected(Cycle))
  => Named(Cycle.handed) = NamesOf(SelectSeq(Cycle.newEvents, StatedMatch))

\* C7.  Single flight: at any moment at most one runOnce call is in flight;
\* a cron tick or a POST /run-once that arrives during a call does not start
\* a second one beside it.
C7_SingleFlight == Cardinality({p \in Slots : InFlight(p)}) <= 1

\* The hash strategy has scraped and filtered the page.
Filtered(c) == strategy = "hash" /\ c.pc \in {"load", "notify", "persist", "resolved"}

\* The filter of the hash strategy as the specification states it.
StatedMatchB(e, f) ==
  LET side(tribe) == tribe # Null /\ ToLowerCase(Trim(tribe)) = ToLowerCase(f.clan)
  IN (side(e.oldTribe) \/ side(e.newTribe)) /\ e.x < f.xMax /\ e.y > f.yMin

\* C11.  filterEvents of the hash strategy: with a filter {clan, xMax, yMin}
\* the filtered list is, in page order, exactly the records one of whose
\* tribes is not null and equals the clan once trimmed and lower-cased, with
\* x < xMax and y > yMin; a null tribe on the other side does not matter.
C11_FilterEvents ==
  (Filtered(Cycle) /\ FiltersActive(filters))
  => Cycle.filteredEvents =
       SelectSeq(Cycle.allEvents, LAMBDA e : StatedMatchB(e, filters))

\* The page held a record out of range next to one whose tribe needs trim
\* and lower-casing: only the latter was kept.
C11_Witness ==
  /\ Filtered(Cycle)
  /\ Cycle.allEvents = <<evFar, evLower>>
  /\ Cycle.filteredEvents = <<evLower>>

\* A record with a null old tribe was kept on its new tribe.
C11_WitnessNullSide ==
  /\ Filtered(Cycle)
  /\ Cycle.allEvents = <<evIso>>
  /\ evIso.oldTribe = Null
  /\ Cycle.filteredEvents = <<evIso>>

\* C12.  Disabled filtering: with a null filter configuration every record
\* passes the filter step (timestamp strategy: every new record is in the
\* message handed to the notifier; hash strategy: filterEvents returns the
\* whole page) and no cycle fails in the filter step.
C12_DisabledFiltering ==
  ~FiltersActive(filters) =>
    /\ (strategy = "timestamp" /\ Detected(Cycle)) =>
         /\ Cycle.filteredEvents = Cycle.newEvents
         /\ Named(Cycle.handed) = NamesOf(Cycle.newEvents)
    /\ strategy = "hash" =>
         /\ Cycle.error # "filter"
         /\ Filtered(Cycle) => Cycle.filteredEvents = Cycle.allEvents

\* C13.  Notification retries exhausted: a cycle whose every notification
\* attempt failed with a delivery error is not failed for it; it goes on to
\* the cursor (hash) write.
C13_RetriesExhausted ==
  Cycle.pc = "rejected" => Cycle.error # "notify"

C14_WitnessHash ==
  /\ strategy = "hash"
  /\ Cycle.notified = "skipped"
  /\ recipients # <<>>
  /\ Cycle.handed = <<>>
  /\ Cycle.pc = "resolved"
  /\ store.lastHash = Cycle.newHash

\* C15.  Fetch failure aborts the cycle.  A cycle is failed for the fetch
\* only from its fetching step (in the hash strategy only when the last
\* retry has failed too); runOnce then rejects, no message has been handed
\* to the notifier, no save has been called and the store is as it was.
C15_FetchFailure ==
  [][cyc'[1].error = "scrape" =>
       /\ cyc'[1].pc = "rejected"
       /\ cyc'[1].handed = <<>>
       /\ cyc'[1].notified = "no"
       /\ cyc'[1].saveCalls = 0
       /\ cyc'[1].writes = 0
       /\ cyc[1].error # "scrape" =>
            /\ cyc[1].pc = "scrape"
            /\ store' = store
            /\ strategy = "hash" => cyc[1].attempt = BackoffMaxRetries]_vars

\* The hash strategy gave up the fetch and counted the error.
C15_Witness ==
  /\ strategy = "hash"
  /\ Cycle.pc = "rejected"
  /\ Cycle.error = "scrape"
  /\ errorCount > 0

\* The timestamp strategy failed on its one fetch, with a cursor persisted
\* by an earlier cycle left in place.
C15_WitnessTimestamp ==
  /\ strategy = "timestamp"
  /\ Cycle.pc = "rejected"
  /\ Cycle.error = "scrape"
  /\ Truthy(store.lastProcessedTimestamp)

\* The cycle follows one whose save failed after it had handed a message to
\* the notifier, scraped the same page, and got to its own write.
AfterFailedSave(c) ==
  prev.unsaved # <<>> /\ c.samePage /\ c.pc \in {"persist", "resolved"}

\* The failed write is surfaced and has left the store as the cycle found it.
SaveSurfaced(c) ==
  c.error = "save" =>
    /\ c.pc = "rejected"
    /\ c.writes = 0
    /\ c.loaded # <<>>
    /\ IF strategy = "timestamp"
         THEN store.lastProcessedTimestamp = c.loaded[1]
         ELSE store.lastHash = c.loaded[1]

\* C16 as the specification states it: a failed cursor write fails the
\* cycle, and the next cycle on the same page hands the same message to the
\* notifier again, in either strategy.
C16_AsStated ==
  /\ SaveSurfaced(Cycle)
  /\ AfterFailedSave(Cycle) => Cycle.handed = prev.unsaved

\* C16.  A failed cursor write (in the hash strategy: failed on every retry)
\* fails the cycle, also when the notification was sent, and leaves the
\* persisted key as it was; the next cycle on the same page hands the same
\* message to the notifier again, unless it finds the notifier not ready
\* and skips the call (hash strategy).
C16_PersistenceFailure ==
  /\ SaveSurfaced(Cycle)
  /\ (AfterFailedSave(Cycle) /\ Cycle.notified # "skipped") =>
       Cycle.handed = prev.unsaved

\* A cycle sent its message and failed on the write; the next one on the
\* same page sent the same message and resolved.
C16_Witness ==
  /\ prev.ended = "rejected"
  /\ prev.unsaved # <<>>
  /\ Cycle.samePage
  /\ Cycle.pc = "resolved"
  /\ Cycle.notified = "sent"
  /\ Cycle.handed = prev.unsaved

\* The notification was sent and the write failed: the cycle is failed.
C16_WitnessRejected ==
  Cycle.pc = "rejected" /\ Cycle.error = "save" /\ Cycle.notified = "sent"

\* C17 as the specification states it: a cycle of the timestamp strategy
\* that resolves has loaded the cursor exactly once.
C17_AsStated ==
  (strategy = "timestamp" /\ Cycle.pc = "resolved") => Len(Cycle.loaded) = 1

\* C17.  In a cycle of the timestamp strategy the cursor is loaded at most
\* once: once, when the scrape returned a record, before anything is handed
\* to the notifier or saved, and not at all when the scrape failed or
\* returned no record.  save is called at most once, not once per record,
\* and the cycle does nothing with the store after it.
C17_ReadModifyWrite ==
  [][strategy = "timestamp" =>
       LET c == cyc'[1]
       IN /\ Len(c.loaded) <= 1
          /\ (c.pc \in {"notify", "persist"} \/ c.handed # <<>> \/ c.saveCalls > 0)
               => Len(c.loaded) = 1
          /\ (c.pc \in Settled /\ c.allEvents # <<>>) => Len(c.loaded) = 1
          /\ c.allEvents = <<>> => c.loaded = <<>>
          /\ c.saveCalls <= 1
          /\ c.writes <= c.saveCalls
          /\ (cyc[1].saveCalls > 0 /\ c.pc # "idle") =>
               /\ c.loaded = cyc[1].loaded
               /\ c.saveCalls = cyc[1].saveCalls
               /\ c.pc \in Settled]_vars

\* Two new records were notified in one cycle with one load, one save call
\* and one write.
C17_Witness ==
  /\ strategy = "timestamp"
  /\ Cycle.pc = "resolved"
  /\ Len(Cycle.newEvents) = 2
  /\ Cycle.notified = "sent"
  /\ Len(Cycle.loaded) = 1
  /\ Cycle.saveCalls = 1
  /\ Cycle.writes = 1

\* The cycle resolved, past the first run, with no matching event.
ZeroMatches(c) == c.pc = "resolved" /\ ~c.firstRun /\ c.filteredEvents = <<>>

\* C18 as the specification states it: a cycle with zero matching events
\* ends without a notifier call and without a persistence write.
C18_AsStated ==
  ZeroMatches(Cycle) =>
    Cycle.handed = <<>> /\ Cycle.saveCalls = 0 /\ Cycle.writes = 0

\* C18.  A cycle with zero matching events ends without a notifier call.
\* The hash strategy then neither loads nor saves; the timestamp strategy
\* writes nothing when no record is newer than the cursor, and advances the
\* cursor to the most recent new record when there are new records of which
\* none matches.
C18_ZeroMatches ==
  ZeroMatches(Cycle) =>
    /\ Cycle.handed = <<>>
    /\ Cycle.notified = "no"
    /\ strategy = "hash" =>
         Cycle.loaded = <<>> /\ Cycle.saveCalls = 0 /\ Cycle.writes = 0
    /\ (strategy = "timestamp" /\ Cycle.newEvents = <<>>) =>
         /\ Cycle.saveCalls = 0 /\ Cycle.writes = 0
         /\ Cycle.loaded # <<>> => store.lastProcessedTimestamp = Cycle.loaded[1]
    /\ (strategy = "timestamp" /\ Cycle.newEvents # <<>>) =>
         /\ Cycle.saveCalls = 1 /\ Cycle.writes = 1
         /\ \E i \in MostRecent(Cycle.newEvents) :
              store.lastProcessedTimestamp = Cycle.newEvents[i].timestamp

\* New records, none of them matching: nothing was handed to the notifier
\* and the cursor was written.
C18_Witness ==
  /\ strategy = "timestamp"
  /\ ZeroMatches(Cycle)
  /\ Cycle.newEvents # <<>>
  /\ FiltersActive(filters)
  /\ Cycle.handed = <<>>
  /\ Cycle.writes = 1

\* The hash strategy found no matching record on a page with records and
\* ended without touching the store.
C18_WitnessHash ==
  /\ strategy = "hash"
  /\ ZeroMatches(Cycle)
  /\ Cycle.allEvents # <<>>
  /\ Cycle.loaded = <<>>
  /\ Cycle.writes = 0

\* The selectors in the order the specification gives: the configured one,
\* then the fallback list.
StatedSelectors ==
  <<scraper.cssSelector, "table tbody tr", "table.table tbody tr",
    "table:contains(Ennoblements) tbody tr", "table:contains(Village) tbody tr",
    "table:contains(Old Owner) tbody tr", "tbody tr", "tr">>
Yields(i) == \E k \in DOMAIN scraper.html : Selects(StatedSelectors[i], scraper.html[k])
\* scrape got the document and ran to its end.
Scraped == scraper.pc \in {"returned", "threw"} /\ scraper.message # "get failed"

\* C19.  No table found.  Once the document is fetched, scrape uses the
\* first selector, of the configured one and then the fallbacks in their
\* order, that yields a row; when none yields a row it throws 'No
\* ennoblement table rows found on page' and returns nothing.
C19_NoTableFound ==
  Scraped =>
    IF \E i \in DOMAIN StatedSelectors : Yields(i)
      THEN /\ scraper.pc = "returned"
           /\ \E i \in DOMAIN StatedSelectors :
                /\ Yields(i)
                /\ \A j \in 1..(i - 1) : ~Yields(j)
                /\ scraper.selector = StatedSelectors[i]
      ELSE /\ scraper.pc = "threw"
           /\ scraper.message = NoRowsFound
           /\ scraper.events = <<>>

\* A document without any tr: scrape threw.
C19_Witness ==
  /\ scraper.html = <<>>
  /\ scraper.pc = "threw"
  /\ scraper.message = NoRowsFound

\* The configured selector and six fallbacks yielded nothing; the last
\* fallback, 'tr', found the rows.
C19_WitnessFallback ==
  /\ scraper.cssSelector = "table.table tbody tr"
  /\ scraper.html = <<rowGamma, rowGamma>>
  /\ scraper.pc = "returned"
  /\ scraper.selector = "tr"
  /\ Len(scraper.events) = 2

\* The rows the selector in use picked, in document order.
Candidates == SelectSeq(scraper.html, LAMBDA row : Selects(scraper.selector, row))
\* The row has at least 4 td cells, no th cell, and reads as a record.
Qualifies(row) ==
  Len(row.cells) >= 4 /\ row.th = 0 /\ RowOf(row).parses = "record"
VillagesOf(events) == [i \in DOMAIN events |-> events[i].villageName]
VillagesRead(rows) == [i \in DOMAIN rows |-> RowOf(rows[i]).village]

\* C20.  Row skipping and order.  scrape returns whenever a selector yields
\* a row, whatever the rows are, and what it returns is one record for each
\* candidate row with at least 4 td cells, no th cell and cells that read
\* as a record, in the order of the rows; every other row adds nothing.
C20_RowSkipping ==
  /\ (Scraped /\ scraper.html # <<>>) => scraper.pc = "returned"
  /\ scraper.pc = "returned" =>
       VillagesOf(scraper.events) = VillagesRead(SelectSeq(Candidates, Qualifies))

\* A row whose parse throws stands before a well-formed one: the record of
\* the second is returned.
C20_Witness ==
  /\ scraper.html = <<rowBroken, rowAlpha>>
  /\ scraper.pc = "returned"
  /\ VillagesOf(scraper.events) = <<RowOf(rowAlpha).village>>

\* Two well-formed rows come out in the order of the page.
C20_WitnessOrder ==
  /\ scraper.html = <<rowDelta, rowAlpha>>
  /\ scraper.pc = "returned"
  /\ VillagesOf(scraper.events) = <<RowOf(rowDelta).village, RowOf(rowAlpha).village>>

\* A row with a th cell before well-formed td cells is skipped.
C20_WitnessHeader ==
  /\ scraper.html = <<rowNumbered, rowDelta>>
  /\ scraper.pc = "returned"
  /\ Len(scraper.events) = 1

\* The cells of the one row of the document, and what they say.
TheCells == scraper.html[1].cells
CellOf(cells, text) == CHOOSE c \in cells : c.text = text
\* The row names a village and both players.
RowComplete ==
  /\ CellOf(VillageCells, TheCells[1]).village # <<>>
  /\ CellOf(OwnerCells, TheCells[3]).player # <<>>
  /\ CellOf(OwnerCells, TheCells[4]).player # <<>>

\* C21.  Record validity.  Every record scrape returns has a non-empty
\* villageName, oldPlayer, newPlayer and timestamp; a row whose cells name
\* no village, no old player or no new player gives no record.
C21_RecordValidity ==
  scraper.pc = "returned" =>
    /\ \A i \in DOMAIN scraper.events :
         LET e == scraper.events[i]
         IN /\ Truthy(e.villageName)
            /\ Truthy(e.oldPlayer)
            /\ Truthy(e.newPlayer)
            /\ Truthy(e.timestamp)
    /\ Len(scraper.events) = IF RowComplete THEN 1 ELSE 0

\* A row with a village and a new owner whose old owner cell names a tribe
\* only: nothing is returned.
C21_Witness ==
  /\ scraper.pc = "returned"
  /\ CellOf(VillageCells, TheCells[1]).village # <<>>
  /\ CellOf(OwnerCells, TheCells[3]).player = <<>>
  /\ CellOf(OwnerCells, TheCells[4]).player # <<>>
  /\ scraper.events = <<>>

\* A complete row gives a record.
C21_WitnessRecord ==
  /\ scraper.pc = "returned"
  /\ RowComplete
  /\ Len(scraper.events) = 1
  /\ scraper.events[1].oldPlayer = CellOf(OwnerCells, TheCells[3]).player

\* The time cell of the row is in one of the three date patterns.
Dated == Len(TheCells) = 5 /\ TheCells[5] \in TextsOf(DatedCells)
\* The ISO text of the local time the cell names, in the scraper's zone.
NamedInstant ==
  LET c == CellOf(DatedCells, TheCells[5])
  IN IF scraper.tz = 0 THEN c.utc ELSE c.ahead

\* C22.  Timestamp patterns.  For a time cell in DD.MM.YYYY HH:MM,
\* YYYY-MM-DD HH:MM or MM/DD/YYYY HH:MM, the record's timestamp is the ISO
\* text of the local time whose year, month, day, hour and minute the cell
\* names in that pattern.
C22_TimestampPatterns ==
  (scraper.pc = "returned" /\ Dated /\ RowComplete) =>
    scraper.events[1].timestamp = NamedInstant

\* C23.  Points tolerance.  Whatever the points cell holds, the call does
\* not throw because of it and the row is not dropped for it: a complete row
\* gives one record, whose points are the first run of digits of the cell
\* once commas are removed, 0 when the cell has no digit.
C23_PointsTolerance ==
  scraper.pc \in {"returned", "threw"} /\ scraper.message # "get failed" =>
    /\ scraper.pc = "returned"
    /\ RowComplete =>
         /\ Len(scraper.events) = 1
         /\ scraper.events[1].points = CellOf(PointsCells, TheCells[2]).points

\* A complete row whose points cell has no digit: a record with 0 points.
C23_Witness ==
  /\ scraper.pc = "returned"
  /\ RowComplete
  /\ TheCells[2] = <<"n", "/", "a">>
  /\ Len(scraper.events) = 1
  /\ scraper.events[1].points = 0

\* A points cell with a thousands separator.
C23_WitnessCommas ==
  /\ scraper.pc = "returned"
  /\ RowComplete
  /\ TheCells[2] = <<"1", ",", "2", "3", "4">>
  /\ scraper.events[1].points = 1234

\* How many times a record stands in a list.
Times(list, record) == Cardinality({i \in DOMAIN list : list[i] = record})
\* One list is the other in another order.
Permuted(a, b) ==
  /\ Len(a) = Len(b)
  /\ \A r \in SignedRecords : Times(a, r) = Times(b, r)

\* C24.  Hash determinism.  Two filtered lists that hold the same records,
\* in whatever order, have the same hash (the digest is taken as a function
\* of the signature, free of collisions; its hex spelling is not modelled).
C24_HashDeterminism ==
  (hashing.pc = "compared" /\ Permuted(hashing.events, hashing.other)) =>
    /\ hashing.lastHash = hashing.newHash
    /\ hashing.unchanged

\* Two different records, listed in one order and then in the other.
C24_Witness ==
  /\ hashing.pc = "compared"
  /\ hashing.events = <<evLoss, evIso>>
  /\ hashing.other = <<evIso, evLoss>>
  /\ hashing.unchanged

\* timestamp, x, y and the two tribes, null read as the empty text.
KeyFields(event) ==
  <<event.timestamp, event.x, event.y,
    IF event.oldTribe = Null THEN <<>> ELSE event.oldTribe,
    IF event.newTribe = Null THEN <<>> ELSE event.newTribe>>
SameKeys(a, b) ==
  /\ Len(a) = Len(b)
  /\ \A i \in DOMAIN a : KeyFields(a[i]) = KeyFields(b[i])

\* C25.  Signature key fields.  Two lists that agree, record by record, on
\* timestamp, x, y, old tribe and new tribe (null as empty) have the same
\* hash whatever their village names, points and player names, so the
\* second is taken as unchanged; lists of equal length that differ in a key
\* field of some record at every pairing do not.
C25_SignatureKeyFields ==
  hashing.pc = "compared" =>
    /\ SameKeys(hashing.events, hashing.other) =>
         hashing.lastHash = hashing.newHash /\ hashing.unchanged
    /\ (Len(hashing.events) = 1 /\ Len(hashing.other) = 1
          /\ ~SameKeys(hashing.events, hashing.other)) =>
         ~hashing.unchanged

\* The same conquest before and after the village was renamed.
C25_Witness ==
  /\ hashing.pc = "compared"
  /\ hashing.events = <<evIso, evLoss>>
  /\ hashing.other = <<evIsoEmpty, evRenamed>>
  /\ hashing.unchanged

\* The text of the state file once timestamp is saved over what it held.
Complete(before, timestamp) ==
  IF before = Absent
    THEN <<"json", [k \in {"lastProcessedTimestamp"} |-> timestamp]>>
  ELSE <<"json", [k \in DOMAIN before[2] \cup {"lastProcessedTimestamp"} |->
                    IF k = "lastProcessedTimestamp" THEN timestamp
                    ELSE before[2][k]]>>

\* C26.  Atomic cursor write.  From the call of saveLastProcessedTimestamp
\* on, whether the call runs on, fails at a step or the process stops
\* between two steps, the state file is what it was before the call (absent
\* or a complete state) or the complete new state; it never holds a text
\* cut short.  (rename is taken as POSIX specifies it: the path names the
\* old file or the new one at every instant.)
C26_AtomicCursorWrite ==
  disk.op = "save" =>
    /\ disk.file \in {disk.before, Complete(disk.before, disk.arg)}
    /\ disk.file # Partial
    /\ disk.pc = "resolved" => disk.file = Complete(disk.before, disk.arg)

\* The process stopped while writeFile had written a part: the temporary is
\* cut short, the state file is the one an earlier run left.
C26_Witness ==
  /\ disk.op = "save"
  /\ disk.pc = "idle"
  /\ disk.crashes = 1
  /\ disk.tmp = Partial
  /\ disk.before # Absent
  /\ disk.file = disk.before

\* A save that ran to its end over a file with another member.
C26_WitnessSaved ==
  /\ disk.op = "save"
  /\ disk.pc = "resolved"
  /\ disk.before # Absent
  /\ "lastHash" \in DOMAIN disk.file[2]
  /\ disk.file[2]["lastProcessedTimestamp"] = disk.arg

\* C27.  State store as a register.  With calls run one at a time, a load
\* that resolves returns the timestamp of the most recent save that
\* resolved since the last clear that resolved (or since the file was
\* found), null when there is none; no load is rejected unless an
\* input/output operation failed; clear on an absent file resolves.
C27_Register ==
  /\ (disk.op = "load" /\ disk.pc = "resolved") => disk.result = disk.register
  /\ (disk.op \in {"load", "clear"} /\ disk.pc = "rejected") => disk.failed
  /\ (disk.op = "clear" /\ disk.pc = "resolved") =>
       disk.file = Absent /\ disk.register = Null

\* save, clear, then a clear of the absent file that resolves.
C27_Witness ==
  /\ disk.op = "clear"
  /\ disk.pc = "resolved"
  /\ disk.before = Absent
  /\ disk.calls = 3
  /\ disk.tmp = Absent
  /\ disk.crashes = 0

\* A load after a save returns what was saved.
C27_WitnessLoad ==
  /\ disk.op = "load"
  /\ disk.pc = "resolved"
  /\ disk.result = tsTen
  /\ disk.crashes = 0

\* A load of a file that never existed returns null.
C27_WitnessNull ==
  /\ disk.op = "load"
  /\ disk.pc = "resolved"
  /\ disk.calls = 1
  /\ disk.before = Absent
  /\ disk.result = Null

\* C28.  Execution counters.  On one hash-strategy PollAndNotify (from its
\* construction to the next start of the process) every step raises
\* executionCount by the calls entered in it and errorCount by the calls
\* that reject in it, and by nothing else; so the counters are the calls
\* started and the calls rejected, errorCount never exceeds executionCount,
\* and a call that returns early resolves with errorCount as it was.
C28_ExecutionCounters ==
  /\ [](strategy = "hash" => errorCount <= executionCount)
  /\ [][(strategy = "hash"
           /\ ~(\A p \in Slots : cyc'[p].pc = "idle" /\ job'[p].pc = "idle"
                  /\ \E q \in Slots : cyc[q].pc \notin {"idle", "resolved", "rejected"})) =>
          /\ executionCount' = executionCount
               + Cardinality({p \in Slots : cyc[p].pc = "idle" /\ cyc'[p].pc # "idle"})
          /\ errorCount' = errorCount
               + Cardinality({p \in Slots : cyc[p].pc # "rejected"
                                             /\ cyc'[p].pc = "rejected"})]_vars

\* A call rejected, then a call that found nothing relevant and returned
\* early: two executions, one error.
C28_Witness ==
  /\ strategy = "hash"
  /\ Cycle.pc = "resolved"
  /\ Cycle.filteredEvents = <<>>
  /\ Cycle.loaded = <<>>
  /\ prev.ended = "rejected"
  /\ executionCount = 2
  /\ errorCount = 1

\* A call that returned early for an unchanged hash.
C28_WitnessUnchanged ==
  /\ strategy = "hash"
  /\ Cycle.pc = "resolved"
  /\ Cycle.loaded # <<>>
  /\ Cycle.handed = <<>>
  /\ executionCount = 2
  /\ errorCount = 0

\* The blocks of the message the cycle handed to the notifier.
BlocksHanded ==
  IF Cycle.handed = <<>> THEN <<>>
  ELSE IF strategy = "timestamp" THEN Cycle.handed[1].blocks
  ELSE Cycle.handed[1].message.blocks
\* The text each use case puts where a record has no tribe.
Placeholder ==
  IF strategy = "timestamp" THEN <<"n", "u", "l", "l">>
  ELSE <<"N", "o", " ", "T", "r", "i", "b", "e">>
\* The block shows the tribe of the record, the placeholder for none.
Shows(text, tribe) ==
  /\ text # <<>>
  /\ text = IF tribe = Null THEN Placeholder ELSE tribe

\* C29.  Tribe placeholder.  In every block of a message handed to the
\* notifier, a tribe that is null is shown as the use case's placeholder,
\* the same text on either side and in every block, never as blank; a tribe
\* that is present is shown as its tag.
C29_TribePlaceholder ==
  Cycle.handed # <<>> =>
    /\ Len(BlocksHanded) = Len(Cycle.filteredEvents)
    /\ \A i \in DOMAIN BlocksHanded :
         /\ Shows(BlocksHanded[i].oldTribe, Cycle.filteredEvents[i].oldTribe)
         /\ Shows(BlocksHanded[i].newTribe, Cycle.filteredEvents[i].newTribe)

\* The timestamp strategy handed a message about a record without a tribe
\* on one side.
C29_Witness ==
  /\ strategy = "timestamp"
  /\ Cycle.handed # <<>>
  /\ \E i \in DOMAIN Cycle.filteredEvents :
       /\ Null \in {Cycle.filteredEvents[i].oldTribe, Cycle.filteredEvents[i].newTribe}
       /\ <<"n", "u", "l", "l">>
            \in {BlocksHanded[i].oldTribe, BlocksHanded[i].newTribe}

\* The hash strategy handed a message about a record without a tribe on one
\* side.
C29_WitnessHash ==
  /\ strategy = "hash"
  /\ Cycle.handed # <<>>
  /\ \E i \in DOMAIN Cycle.filteredEvents :
       /\ Null \in {Cycle.filteredEvents[i].oldTribe, Cycle.filteredEvents[i].newTribe}
       /\ <<"N", "o", " ", "T", "r", "i", "b", "e">>
            \in {BlocksHanded[i].oldTribe, BlocksHanded[i].newTribe}

C30_WitnessNotReady ==
  /\ notifier.pc = "rejected"
  /\ notifier.at.client
  /\ ~notifier.at.isReady
  /\ notifier.sends = <<>>

\* The call in slot p found matching new events and is past its notify
\* step.
NotifiedMatches(p) ==
  /\ cyc[p].pc \in {"persist", "resolved"}
  /\ ~cyc[p].firstRun
  /\ cyc[p].filteredEvents # <<>>

\* C31.  Delivery to recipients.  Under App, with the WhatsApp notifier
\* installed and ready and recipients configured, a cycle of the timestamp
\* strategy that found matching new events and went past its notify step
\* has had notifyMany called once, with the configured recipients.
C31_Delivery ==
  \A p \in Slots :
    (notifier.kind = "whatsapp" /\ notifier.client /\ notifier.isReady
       /\ recipients # <<>> /\ NotifiedMatches(p))
    => cyc[p].notifyMany = <<recipients>>

\* What the code does instead: sendNotification resolved, the cursor moved
\* on, and notifyMany was never called.
C31_Undelivered ==
  /\ notifier.kind = "whatsapp"
  /\ notifier.isReady
  /\ recipients # <<>>
  /\ NotifiedMatches(1)
  /\ cyc[1].pc = "resolved"
  /\ cyc[1].notified = "sent"
  /\ cyc[1].notifyMany = <<>>
  /\ store.lastProcessedTimestamp = cyc[1].saved[1]

\* C32.  Fallback notifier keeps the cycle progressing.  Once WhatsApp
\* initialization has failed on all three attempts and App has installed
\* the mock notifier, no cycle is failed for its notification: a cycle with
\* matching new events goes on to its save and does not reject at the
\* notify step.
C32_FallbackProgress ==
  \A p \in Slots :
    (notifier.kind = "mock" /\ notifier.attempt = InitMaxRetries
       /\ cyc[p].filteredEvents # <<>>)
    => ~(cyc[p].pc = "rejected" /\ cyc[p].error = "notify")

\* What the code does instead: the cycle is rejected at the notify step
\* after its last attempt, no save is called and the cursor stays behind the
\* events.
C32_Stuck ==
  /\ notifier.kind = "mock"
  /\ cyc[1].pc = "rejected"
  /\ cyc[1].error = "notify"
  /\ cyc[1].filteredEvents # <<>>
  /\ cyc[1].saveCalls = 0
  /\ store.lastProcessedTimestamp = cyc[1].loaded[1]

\* C33 as stated: a notify step of the timestamp strategy that ended
\* without rethrowing ended on a successful send.
C33_AsStated ==
  (strategy = "timestamp" /\ Cycle.handed # <<>>
     /\ Cycle.pc \in {"persist", "resolved"})
  => Cycle.notified = "sent"

\* C33.  Bounded notification retry.  While a cycle is in its notify step
\* the call in flight is the 1st to 3rd sendNotification (timestamp
\* strategy) or the 1st to 4th invocation of the operation (hash strategy,
\* attempts 0 to 3).  Every step of the notify step either ends it, on the
\* first success or on a notifier found not ready (skipped, nothing
\* rethrown), or follows a failed call by the next one, or, only after the
\* last call failed, rethrows the error and rejects the cycle.
C33_BoundedRetry ==
  /\ [](\A p \in Slots :
          cyc[p].pc = "notify" =>
            IF strategy = "timestamp"
              THEN cyc[p].attempt \in 1..NotifyMaxRetries
              ELSE cyc[p].attempt \in 0..BackoffMaxRetries)
  /\ [][\A p \in Slots :
          (cyc[p].pc = "notify" /\ cyc'[p] # cyc[p] /\ cyc'[p].pc # "idle") =>
            \/ /\ cyc'[p].pc = "notify"
               /\ cyc'[p].attempt = cyc[p].attempt + 1
               /\ strategy = "timestamp" => cyc'[p].notified = "error"
            \/ /\ cyc'[p].pc \in {"persist", "resolved"}
               /\ cyc'[p].notified \in {"sent", "notReady", "skipped"}
            \/ /\ cyc'[p].pc = "rejected"
               /\ cyc'[p].error = "notify"
               /\ cyc[p].attempt = IF strategy = "timestamp"
                                     THEN NotifyMaxRetries
                                     ELSE BackoffMaxRetries]_vars

\* The third sendNotification of a cycle is in flight, after two failures.
C33_Witness ==
  /\ strategy = "timestamp"
  /\ Cycle.pc = "notify"
  /\ Cycle.attempt = NotifyMaxRetries
  /\ Cycle.notified = "error"

\* The fourth invocation of the hash strategy's operation is in flight.
C33_WitnessHash ==
  /\ strategy = "hash"
  /\ Cycle.pc = "notify"
  /\ Cycle.attempt = BackoffMaxRetries

\* The notify step was given up for the last error.
C33_WitnessRethrown ==
  /\ Cycle.pc = "rejected"
  /\ Cycle.error = "notify"

\* C34.  Timestamp comparability.  The timestamps on the page and in the
\* store are texts the scraper emits (the site's own text passed through,
\* or the ISO text of a matched date pattern or of the current instant); a
\* cycle of the timestamp strategy that loaded a cursor is never failed by
\* parseTimestamp for the format of one of them.
C34_Comparable ==
  (strategy = "timestamp" /\ Cycle.loaded # <<>> /\ Truthy(Cycle.loaded[1]))
  => Cycle.error # "parse"

\* What the code does instead: a record whose timestamp the scraper
\* rendered as ISO text is on the page, and the cycle is rejected in
\* findNewEvents before anything is notified or saved.
C34_Failed ==
  /\ strategy = "timestamp"
  /\ Cycle.pc = "rejected"
  /\ Cycle.error = "parse"
  /\ \E i \in DOMAIN Cycle.allEvents : Cycle.allEvents[i].timestamp = tsIso
  /\ Cycle.loaded[1] # tsIso
  /\ Cycle.handed = <<>>
  /\ Cycle.saveCalls = 0

\* C35.  Notifier initialization is single-flight.  However init() calls
\* and the settling of initializations interleave, at most one _performInit
\* is in flight; callers wait only on a promise in flight; an init() that
\* found the client ready created no Client; and isInitializing is true
\* exactly while a _performInit is in flight, so it is false once the
\* initialization has settled, resolved or rejected.
C35_SingleFlight ==
  /\ notifier.performing + notifier.cleaning <= 1
  /\ notifier.waiting > 0 =>
       notifier.performing + notifier.cleaning = 1
         /\ notifier.initPromise = "pending"
  /\ notifier.last.ready => ~notifier.last.created
  /\ notifier.isInitializing <=> notifier.performing + notifier.cleaning = 1
  /\ notifier.isInitializing <=> notifier.initPromise = "pending"

\* A second and a third caller arrived while the first initialization was
\* cleaning up after a failure; one Client was created.
C35_Witness ==
  /\ notifier.inits = 3
  /\ notifier.waiting = 2
  /\ notifier.cleaning = 1
  /\ notifier.clients = 1
  /\ notifier.isInitializing

\* An initialization failed and settled; the flag is clear again.
C35_WitnessSettled ==
  /\ notifier.initPromise = "rejected"
  /\ ~notifier.isInitializing
  /\ notifier.performing + notifier.cleaning = 0
  /\ ~notifier.client

\* init() on a ready client.
C35_WitnessReady ==
  /\ notifier.last.ready
  /\ notifier.inits = 2
  /\ notifier.clients = 1
  /\ notifier.initPromise = "resolved"

(***************************************************************************)
(* C36: the /filters routes and the filter of the cycle that follows.       *)
(***************************************************************************)
\* The filter of the configuration the application is started with: one of
\* the tribes is the clan, trimmed and whatever the case, with x below xMax
\* and y above yMin.
StartedWith(e) == StatedMatchB(e, WiredFilters)

\* runOnce, past its load, has selected the new records and filtered them
\* while a filter object assigned by a route was in place.
FilteredUnderRoute ==
  /\ cyc[1].pc = "load"
  /\ cyc'[1].pc \in {"notify", "persist", "resolved"}
  /\ Truthy(store.lastProcessedTimestamp)
  /\ filters \in {ActivatedFilters, ToggledFilters}

\* C36.  Whatever /filters requests were answered, GET /filters/status
\* reports active after activate, inactive after deactivate, and after a
\* toggle the opposite of what the toggle found; and a cycle that filters
\* under the object assigned by activate or toggle keeps exactly the new
\* records the started configuration {SiSu, x < 452, y > 462} matches.
C36_FilterToggle ==
  /\ [](routes.status # "none" =>
          /\ routes.changed = "activate" => routes.status = "active"
          /\ routes.changed = "deactivate" => routes.status = "inactive"
          /\ routes.changed = "toggle" =>
               routes.status = (IF routes.was THEN "inactive" ELSE "active"))
  /\ [][FilteredUnderRoute =>
          cyc'[1].filteredEvents =
            SelectSeq(cyc'[1].newEvents, LAMBDA e : StartedWith(e))]_vars

\* The status half on its own: it holds.
C36_Status ==
  routes.status # "none" =>
    /\ routes.changed = "activate" => routes.status = "active"
    /\ routes.changed = "deactivate" => routes.status = "inactive"
    /\ routes.changed = "toggle" =>
         routes.status = (IF routes.was THEN "inactive" ELSE "active")

\* After deactivate and toggle, with the coordinate bounds in this.filters,
\* a cycle handed over a SiSu record from x = 453.
C36_OutOfRange ==
  /\ routes.changed = "toggle" /\ ~routes.was
  /\ filters = ToggledFilters
  /\ cyc[1].pc = "notify"
  /\ \E i \in DOMAIN cyc[1].filteredEvents :
       /\ cyc[1].filteredEvents[i].x >= 452
       /\ ~StartedWith(cyc[1].filteredEvents[i])
       /\ passesFilter(cyc[1].filteredEvents[i], filters)


(***************************************************************************)
(* C37: records that come onto the page between two cycles.                 *)
(***************************************************************************)
\* The records of the page now scraped that the page of the cycle before
\* did not hold.
Appeared(c) ==
  SelectSeq(c.allEvents, LAMBDA e : \A j \in DOMAIN seen[1] : seen[1][j] # e)

\* The cycle before resolved over the page remembered, the site replaced
\* that page, and the cycle now in flight has selected its new records.
AfterTurn ==
  /\ strategy = "timestamp"
  /\ prev.ended = "resolved"
  /\ Len(seen) = 1
  /\ ~Cycle.samePage
  /\ Detected(Cycle)

\* C37.  With pages listed most recent first and no call failing, every
\* record on the page of a cycle that was not on the page of the cycle
\* before is among the new records of that cycle, and once the cycle has
\* resolved after a delivery the records among them that pass the filter
\* are named in the message handed to the notifier.
C37_NoEventSkipped ==
  AfterTurn =>
    /\ \A i \in DOMAIN Appeared(Cycle) :
         \E k \in DOMAIN Cycle.newEvents : Cycle.newEvents[k] = Appeared(Cycle)[i]
    /\ (Cycle.pc = "resolved" /\ Cycle.notified = "sent") =>
         \A i \in DOMAIN Appeared(Cycle) :
           passesFilter(Appeared(Cycle)[i], filters) =>
             \E k \in DOMAIN Cycle.handed[1].blocks :
               Named(Cycle.handed)[k] = NamesOf(Appeared(Cycle))[i]

\* The page held the conquest of 10:00:00 and the cursor was its timestamp;
\* a second conquest of the same second was listed before the next cycle,
\* which found nothing new.
C37_SameInstant ==
  /\ AfterTurn
  /\ seen = << <<evFar>> >>
  /\ Cycle.allEvents = <<evLower, evFar>>
  /\ Cycle.loaded = <<tsTen>>
  /\ Cycle.newEvents = <<>>
  /\ Cycle.pc = "resolved"


(***************************************************************************)
(* C38: the cursor of the timestamp strategy only moves forward.            *)
(***************************************************************************)
\* The call in slot 1, past its bootstrap, has asked for a cursor write.
WritesCursor(c) ==
  /\ strategy = "timestamp"
  /\ c.loaded # <<>> /\ ~c.firstRun
  /\ c.saveCalls > 0

\* C38.  Over cycles that run one after another, a cycle that did not
\* bootstrap and writes the cursor writes the timestamp of a record it
\* scraped, naming an instant strictly later than the cursor it loaded;
\* and no step replaces a stored cursor by one that is not strictly later.
C38_CursorMonotonic ==
  /\ [](WritesCursor(Cycle) =>
          /\ MinuteOf(Cycle.saved[1]) > MinuteOf(Cycle.loaded[1])
          /\ \E i \in DOMAIN Cycle.allEvents :
               Cycle.allEvents[i].timestamp = Cycle.saved[1])
  /\ [][(strategy = "timestamp"
          /\ store'.lastProcessedTimestamp # store.lastProcessedTimestamp)
        => /\ \E i \in DOMAIN Cycle.allEvents :
                Cycle.allEvents[i].timestamp = store'.lastProcessedTimestamp
           /\ Truthy(store.lastProcessedTimestamp) =>
                MinuteOf(store'.lastProcessedTimestamp)
                  > MinuteOf(store.lastProcessedTimestamp)]_vars

\* A second cycle loaded the cursor of 09:00 left by the first, found the
\* conquest of 10:00 on the new page and stored its timestamp.
C38_Witness ==
  /\ WritesCursor(Cycle)
  /\ started = 2
  /\ prev.ended = "resolved" /\ prev.writes = 1
  /\ Cycle.pc = "resolved" /\ Cycle.writes = 1
  /\ Cycle.loaded = <<tsMorning>>
  /\ store.lastProcessedTimestamp = tsTen

\* A record at the cursor's instant, written differently, was on the page:
\* the cursor stayed as it was.
C38_WitnessEqual ==
  /\ strategy = "timestamp"
  /\ Detected(Cycle)
  /\ Cycle.pc = "resolved"
  /\ Cycle.loaded = <<tsTen>>
  /\ Cycle.allEvents = <<evLower, evFar>>
  /\ Cycle.saveCalls = 0
  /\ store.lastProcessedTimestamp = tsTen


(***************************************************************************)
(* C39: two save calls at once.                                             *)
(***************************************************************************)
BothSettled == \A s \in Savers : disk.saves[s].pc \in Settled

\* C39.  However two concurrent saveLastProcessedTimestamp calls on one
\* store interleave, once both have settled both have resolved, and the
\* state file holds a complete JSON state whose lastProcessedTimestamp is
\* the argument of one of the two calls.
C39_ConcurrentSaves ==
  BothSettled =>
    /\ \A s \in Savers : disk.saves[s].pc = "resolved"
    /\ Parses(disk.file)
    /\ \E s \in Savers :
         Member(parse(disk.file), "lastProcessedTimestamp") = disk.saves[s].arg

\* What does hold once both have settled: one call at least has resolved,
\* and the file is complete with the timestamp of one of the two (which may
\* be the one that rejected).
C39_FileComplete ==
  BothSettled =>
    /\ \E s \in Savers : disk.saves[s].pc = "resolved"
    /\ Parses(disk.file)
    /\ \E s \in Savers :
         Member(parse(disk.file), "lastProcessedTimestamp") = disk.saves[s].arg

\* Both calls had written the temporary file when the first renamed it:
\* the rename of the second found no file and the call rejected.
C39_SecondRejected ==
  /\ disk.saves[1].pc = "resolved"
  /\ disk.saves[2].pc = "rejected"
  /\ disk.saves[1].arg # disk.saves[2].arg
  /\ Parses(disk.file)
  /\ disk.tmp = Absent

\* The first call renamed the temporary file the second had just truncated:
\* the state file is not complete JSON until the second has written.
C39_TornFile ==
  /\ disk.saves[1].pc = "resolved"
  /\ disk.saves[2].pc = "writing" /\ disk.saves[2].fd = "file"
  /\ disk.file = Partial


=============================================================================
